---- MODULE Spec2Model ----
(***************************************************************************)
(* Verification model of the firecracker core: the virtio vsock device     *)
(* (src/devices/src/virtio/vsock/device.rs), the snapshot container        *)
(* (src/snapshot/src/lib.rs, src/snapshot/src/primitives.rs), the code the *)
(* snapshot derive generates (src/snapshot_derive/src) and the guest       *)
(* memory constructors (src/memory_model/src).                             *)
(*                                                                         *)
(* Bit masks (u64 feature words, the usize interrupt status) are modelled  *)
(* as the set of the positions of their 1 bits: OR is \cup, AND is \cap,   *)
(* NOT is the complement within the word.                                  *)
(***************************************************************************)
EXTENDS Integers, Sequences, FiniteSets, TLC

VARIABLES
    dev,        \* the Vsock device: state (VsockState), device_status, eventfds
    rings,      \* guest memory: the available and used ring of each queue
    saved,      \* the VsockState returned by save() and not yet restored, or NoState
    op,         \* the last operation called on the device, its inputs and result
    requeued,   \* per queue: the head the last pump on it un-popped, or NoHead
    sig,        \* the threads inside signal_used_queue and the thread that
                \* waits on the interrupt eventfd, with what it has read
    snap,       \* a Snapshot being written, the bytes save() produced from
                \* it, and the Snapshot load() built from those bytes
    codec,      \* a value being serialized and deserialized, or a VersionMap
                \* being built, with the result of the last call
    gm          \* the ranges a GuestMemory is built from and the result

vsockVars == <<dev, rings, saved, op, requeued>>

----------------------------------------------------------------------------
(* Bounds of the model. *)

\* descriptors the driver makes available (on both queues) during a run
MaxAvail == 2
\* the same, in the runs that also save and restore the device
MaxAvailLife == 1
\* successful activate calls on one device object
MaxActivate == 2
\* signal_used_queue calls that reach the interrupt eventfd
MaxSignal == 1

----------------------------------------------------------------------------
(* Constants of the program. *)

RXQ_INDEX == 0
TXQ_INDEX == 1
EVQ_INDEX == 2

\* defs::NUM_QUEUES
NUM_QUEUES == 3
\* defs::QUEUE_SIZE, the max_size of each of the three queues
QUEUE_SIZE == 256
\* uapi feature bit numbers
VIRTIO_F_VERSION_1 == 32
VIRTIO_F_IN_ORDER == 35
\* the size of the vsock packet header, pkt.hdr().len()
VSOCK_PKT_HDR_SIZE == 44

\* 1 << VIRTIO_F_VERSION_1 | 1 << VIRTIO_F_IN_ORDER
AVAIL_FEATURES == {VIRTIO_F_VERSION_1, VIRTIO_F_IN_ORDER}

\* 0x01, the "used buffer" bit of the MMIO interrupt status
VIRTIO_MMIO_INT_VRING == {0}

U32Bits == 0..31
U64Bits == 0..63

----------------------------------------------------------------------------
(* Inputs. *)

\* guest memory handles handed to activate / restore
Mems == {"memA", "memB"}
\* the CID, as its high and low 32-bit halves
Cids == {[hi |-> 1, lo |-> 3]}
\* numbers of queues a device can be built with (with_queues takes any Vec)
QueueCounts == {NUM_QUEUES - 1, NUM_QUEUES, NUM_QUEUES + 1}
\* a backend call: -1 is Err, n >= 0 is Ok with a payload of n bytes
BackendErr == 0 - 1
RecvResults == {BackendErr, 0, 1}
SendResults == {BackendErr, 0}

NoState == [none |-> TRUE]
\* the threads that call signal_used_queue on the shared device
Signallers == {1, 2}
\* no thread is inside signal_used_queue, nothing has been read
SigIdle == [pc |-> [t \in Signallers |-> [at |-> 0, evtOk |-> TRUE]],
            calls |-> [t \in Signallers |-> 0],
            waiter |-> "waiting",
            reads |-> {}]
\* no Snapshot object exists
NoSnapshot == [pc |-> "none"]
\* no value is being encoded, no GuestMemory is being built
NoCodec == [pc |-> "none"]
NoMemory == [pc |-> "none"]
NoOp == [name |-> "none"]
NoHead == [index |-> 0 - 1, parse_ok |-> FALSE]

----------------------------------------------------------------------------
(* The virtio queue (a dependency of the device: pop, undo_pop, add_used).  *)
(* The queue object holds the positions; the rings live in guest memory.   *)

Queue_new(max_size) ==
    [max_size |-> max_size, next_avail |-> 0, next_used |-> 0]

EmptyRing == [avail |-> <<>>, used |-> <<>>]

\* pop: the next head of the available ring, if the driver has published one
pop(queue, ring) ==
    IF queue.next_avail < Len(ring.avail)
    THEN [some |-> TRUE,
          head |-> ring.avail[queue.next_avail + 1],
          queue |-> [queue EXCEPT !.next_avail = @ + 1]]
    ELSE [some |-> FALSE, head |-> NoHead, queue |-> queue]

\* undo_pop: step the iterator back by one
undo_pop(queue) == [queue EXCEPT !.next_avail = @ - 1]

\* add_used: write (index, len) into slot next_used of the used ring and
\* publish next_used + 1 (no wrap-around: the runs stay below max_size)
add_used(queue, ring, index, len) ==
    LET elem == [id |-> index, len |-> len]
        slot == queue.next_used + 1
    IN  [queue |-> [queue EXCEPT !.next_used = @ + 1],
         ring |-> [ring EXCEPT !.used = IF slot <= Len(@)
                                         THEN [@ EXCEPT ![slot] = elem]
                                         ELSE Append(@, elem)]]

\* VsockPacket::from_rx_virtq_head / from_tx_virtq_head: whether the
\* descriptor chain parses is a property of the chain the driver published
from_rx_virtq_head(head) == head.parse_ok
from_tx_virtq_head(head) == head.parse_ok

----------------------------------------------------------------------------
(* The device. *)

Inactive == [kind |-> "Inactive"]
Activated(mem) == [kind |-> "Activated", mem |-> mem]

\* Vsock::with_queues: fresh eventfds (counter 0), Inactive, nothing acked
with_queues(cid, queues) ==
    [queue_events |-> Len(queues),
     interrupt_evt |-> 0,
     activate_evt |-> 0,
     device_status |-> Inactive,
     state |-> [cid |-> cid,
                queues |-> queues,
                acked_features |-> {},
                avail_features |-> AVAIL_FEATURES,
                interrupt_status |-> {},
                activated |-> FALSE]]

is_activated(d) == d.device_status.kind = "Activated"

\* save without the match on device_status: the activated flag stays as
\* with_queues or the last restore left it
save_stale(d) == d.state

\* Persist::save
save(d) ==
    [d.state EXCEPT !.activated = (d.device_status.kind = "Activated")]

\* Persist::restore
restore(constructor_args, state) ==
    LET vsock == [with_queues(state.cid, state.queues) EXCEPT !.state = state]
    IN  IF vsock.state.activated
        THEN [vsock EXCEPT !.device_status = Activated(constructor_args.mem)]
        ELSE vsock

\* EventFd::write(1): adds 1 to the counter, or fails and leaves it
EventFd_write(counter, ok) == IF ok THEN counter + 1 ELSE counter

\* EventFd::read (provided by the utils crate): returns the counter and
\* resets it
EventFd_read(counter) == 0

\* signal_used_queue: interrupt_status().fetch_or(VIRTIO_MMIO_INT_VRING, SeqCst)
signal_fetch_or(d) ==
    [d EXCEPT !.state.interrupt_status = @ \cup VIRTIO_MMIO_INT_VRING]

\* signal_used_queue: interrupt_evt.write(1)
signal_evt_write(d, evtOk) ==
    [d EXCEPT !.interrupt_evt = EventFd_write(@, evtOk)]

\* the two steps in the other order: the eventfd is written before the
\* bit is set
signal_step_write_first(n, d, evtOk) ==
    IF n = 1 THEN signal_evt_write(d, evtOk) ELSE signal_fetch_or(d)

\* the n-th of the two steps of signal_used_queue, in program order
signal_step(n, d, evtOk) ==
    IF n = 1 THEN signal_fetch_or(d) ELSE signal_evt_write(d, evtOk)

\* Vsock::signal_used_queue, run without interruption
signal_used_queue(d, evtOk) ==
    [dev |-> signal_step(2, signal_step(1, d, evtOk), evtOk),
     res |-> IF evtOk THEN "Ok" ELSE "FailedSignalingUsedQueue"]

\* VirtioDevice::set_acked_features
set_acked_features(d, acked_features) ==
    [d EXCEPT !.state.acked_features = acked_features]

\* ack_features_by_page without the mask of the bits the device does not offer
ack_features_by_page_unmasked(d, page, value) ==
    LET v == CASE page = 0 -> value
               [] page = 1 -> {b + 32 : b \in value}
               [] OTHER -> {}
    IN  [d EXCEPT !.state.acked_features = @ \cup v]

\* VirtioDevice::ack_features_by_page (provided method of the trait): the
\* page selects the half of the 64-bit word, bits the device does not offer
\* are dropped, the rest is OR'ed into what is already acked
ack_features_by_page(d, page, value) ==
    LET v == CASE page = 0 -> value
               [] page = 1 -> {b + 32 : b \in value}
               [] OTHER -> {}
        unrequested_features == v \ d.state.avail_features
    IN  set_acked_features(d, d.state.acked_features \cup (v \ unrequested_features))

\* VirtioDevice::read_config, the buffer in 32-bit words
read_config(d, offset, data) ==
    CASE offset = 0 /\ Len(data) = 2 -> <<d.state.cid.lo, d.state.cid.hi>>
      [] offset = 0 /\ Len(data) = 1 -> <<d.state.cid.lo>>
      [] offset = 4 /\ Len(data) = 1 -> <<d.state.cid.hi>>
      [] OTHER -> data

\* VirtioDevice::write_config: a warning, no effect
write_config(d, offset, data) == d

\* activate that goes back to Inactive when the eventfd write fails
activate_rollback(d, mem, evtOk) ==
    IF Len(d.state.queues) # NUM_QUEUES
    THEN [dev |-> d, res |-> "BadActivate"]
    ELSE IF ~evtOk
    THEN [dev |-> [d EXCEPT !.device_status = Inactive], res |-> "BadActivate"]
    ELSE [dev |-> [d EXCEPT !.activate_evt = @ + 1, !.device_status = Activated(mem)],
          res |-> "Ok"]

\* activate that stores mem and never writes the activation eventfd
activate_no_evt_write(d, mem, evtOk) ==
    IF Len(d.state.queues) # NUM_QUEUES
    THEN [dev |-> d, res |-> "BadActivate"]
    ELSE [dev |-> [d EXCEPT !.device_status = Activated(mem)], res |-> "Ok"]

\* activate that sets device_status before it writes the eventfd
activate_status_first(d, mem, evtOk) ==
    IF Len(d.state.queues) # NUM_QUEUES
    THEN [dev |-> d, res |-> "BadActivate"]
    ELSE IF ~evtOk
    THEN [dev |-> [d EXCEPT !.device_status = Activated(mem)], res |-> "BadActivate"]
    ELSE [dev |-> [d EXCEPT !.activate_evt = @ + 1, !.device_status = Activated(mem)],
          res |-> "Ok"]

\* VirtioDevice::activate
activate(d, mem, evtOk) ==
    IF Len(d.state.queues) # NUM_QUEUES
    THEN [dev |-> d, res |-> "BadActivate"]
    ELSE IF ~evtOk
    THEN [dev |-> [d EXCEPT !.activate_evt = EventFd_write(@, FALSE)], res |-> "BadActivate"]
    ELSE [dev |-> [d EXCEPT !.activate_evt = EventFd_write(@, TRUE),
                            !.device_status = Activated(mem)],
          res |-> "Ok"]

----------------------------------------------------------------------------
(* The RX and TX pumps.  A pump returns the queue, the ring, have_used and *)
(* a log of what it did: the heads popped, the heads un-popped and the     *)
(* heads handed to the backend.                                            *)

EmptyLog == [popped |-> <<>>, undone |-> <<>>, calls |-> <<>>]

\* recv_pkt failed and the break is taken without undo_pop
rx_backend_err_no_undo(queue) == queue

\* process_rx, recv_pkt failed: queue.undo_pop(); break
rx_backend_err(queue) == undo_pop(queue)

\* process_rx stepping the queue back where it has to add the head
rx_add_used_unpopped(queue, ring, head, used_len) == [queue |-> undo_pop(queue), ring |-> ring]

\* process_rx: queue.add_used(mem, head.index, used_len)
rx_add_used(queue, ring, head, used_len) == add_used(queue, ring, head.index, used_len)

\* process_rx: used_len of a packet the backend filled
rx_used_len(payload) == VSOCK_PKT_HDR_SIZE + payload

\* the parse-error arm giving the length of a packet header
rx_parse_err_len_hdr == VSOCK_PKT_HDR_SIZE

\* process_rx: used_len of a descriptor that did not parse
rx_parse_err_len == 0

\* the parse-error arm without have_used = true
tx_parse_err_have_used_kept(have_used) == have_used

\* process_tx, parse error: have_used = true
tx_parse_err_have_used(have_used) == TRUE

\* the parse-error arm with the arguments of add_used swapped
tx_parse_err_add_used_swapped(queue, ring, head) == add_used(queue, ring, 0, head.index)

\* process_tx, parse error: queue.add_used(mem, head.index, 0)
tx_parse_err_add_used(queue, ring, head) == add_used(queue, ring, head.index, 0)

\* a TX pump that leaves the head it could not send popped
tx_backend_err_dropped(queue) == queue

\* process_tx, send_pkt failed: queue.undo_pop(); break
tx_backend_err(queue) == undo_pop(queue)

\* process_tx, packet sent: queue.add_used(mem, head.index, 0)
tx_add_used(queue, ring, head) == add_used(queue, ring, head.index, 0)

\* the while-let loop of process_rx; backend[n] is the result of the n-th recv_pkt
RECURSIVE rx_loop(_, _, _, _, _, _)
rx_loop(queue, ring, backend, n, have_used, log) ==
    LET p == pop(queue, ring)
        head == p.head
        log1 == [log EXCEPT !.popped = Append(@, head)]
        log2 == [log1 EXCEPT !.calls = Append(@, head)]
    IN  IF ~p.some
        THEN [queue |-> queue, ring |-> ring, have_used |-> have_used, log |-> log]
        ELSE IF from_rx_virtq_head(head)
        THEN IF backend[n] # BackendErr
             THEN LET u == rx_add_used(p.queue, ring, head, rx_used_len(backend[n]))
                  IN  rx_loop(u.queue, u.ring, backend, n + 1, TRUE, log2)
             ELSE [queue |-> rx_backend_err(p.queue), ring |-> ring,
                   have_used |-> have_used,
                   log |-> [log2 EXCEPT !.undone = Append(@, head)]]
        ELSE LET u == rx_add_used(p.queue, ring, head, rx_parse_err_len)
             IN  rx_loop(u.queue, u.ring, backend, n, TRUE, log1)

\* the while-let loop of process_tx; backend[n] is the result of the n-th send_pkt
RECURSIVE tx_loop(_, _, _, _, _, _)
tx_loop(queue, ring, backend, n, have_used, log) ==
    LET p == pop(queue, ring)
        head == p.head
        log1 == [log EXCEPT !.popped = Append(@, head)]
        log2 == [log1 EXCEPT !.calls = Append(@, head)]
    IN  IF ~p.some
        THEN [queue |-> queue, ring |-> ring, have_used |-> have_used, log |-> log]
        ELSE IF ~from_tx_virtq_head(head)
        THEN LET u == tx_parse_err_add_used(p.queue, ring, head)
             IN  tx_loop(u.queue, u.ring, backend, n, tx_parse_err_have_used(have_used), log1)
        ELSE IF backend[n] = BackendErr
        THEN [queue |-> tx_backend_err(p.queue), ring |-> ring,
              have_used |-> have_used,
              log |-> [log2 EXCEPT !.undone = Append(@, head)]]
        ELSE LET u == tx_add_used(p.queue, ring, head)
             IN  tx_loop(u.queue, u.ring, backend, n + 1, TRUE, log2)

\* one turn of the while-let loop of process_rx, result being what recv_pkt
\* returns if it is called: pc is "loop" when the loop goes on and
\* "returned" when the pump returns have_used
rx_iteration(queue, ring, result, have_used, log) ==
    LET p == pop(queue, ring)
        head == p.head
        log1 == [log EXCEPT !.popped = Append(@, head)]
        log2 == [log1 EXCEPT !.calls = Append(@, head)]
    IN  IF ~p.some
        THEN [queue |-> queue, ring |-> ring, have_used |-> have_used, log |-> log,
              pc |-> "returned"]
        ELSE IF from_rx_virtq_head(head)
        THEN IF result # BackendErr
             THEN LET u == rx_add_used(p.queue, ring, head, rx_used_len(result))
                  IN  [queue |-> u.queue, ring |-> u.ring, have_used |-> TRUE,
                       log |-> log2, pc |-> "loop"]
             ELSE [queue |-> rx_backend_err(p.queue), ring |-> ring,
                   have_used |-> have_used,
                   log |-> [log2 EXCEPT !.undone = Append(@, head)],
                   pc |-> "returned"]
        ELSE LET u == rx_add_used(p.queue, ring, head, rx_parse_err_len)
             IN  [queue |-> u.queue, ring |-> u.ring, have_used |-> TRUE,
                  log |-> log1, pc |-> "loop"]

\* one turn of the while-let loop of process_tx
tx_iteration(queue, ring, result, have_used, log) ==
    LET p == pop(queue, ring)
        head == p.head
        log1 == [log EXCEPT !.popped = Append(@, head)]
        log2 == [log1 EXCEPT !.calls = Append(@, head)]
    IN  IF ~p.some
        THEN [queue |-> queue, ring |-> ring, have_used |-> have_used, log |-> log,
              pc |-> "returned"]
        ELSE IF ~from_tx_virtq_head(head)
        THEN LET u == tx_parse_err_add_used(p.queue, ring, head)
             IN  [queue |-> u.queue, ring |-> u.ring,
                  have_used |-> tx_parse_err_have_used(have_used),
                  log |-> log1, pc |-> "loop"]
        ELSE IF result = BackendErr
        THEN [queue |-> tx_backend_err(p.queue), ring |-> ring,
              have_used |-> have_used,
              log |-> [log2 EXCEPT !.undone = Append(@, head)],
              pc |-> "returned"]
        ELSE LET u == tx_add_used(p.queue, ring, head)
             IN  [queue |-> u.queue, ring |-> u.ring, have_used |-> TRUE,
                  log |-> log2, pc |-> "loop"]

\* Vsock::process_rx: the device, the RX ring, the returned bool and the log
process_rx(d, ring, backend) ==
    LET r == rx_loop(d.state.queues[RXQ_INDEX + 1], ring, backend, 1, FALSE, EmptyLog)
    IN  [dev |-> [d EXCEPT !.state.queues[RXQ_INDEX + 1] = r.queue],
         ring |-> r.ring, ret |-> r.have_used, log |-> r.log]

\* Vsock::process_tx
process_tx(d, ring, backend) ==
    LET r == tx_loop(d.state.queues[TXQ_INDEX + 1], ring, backend, 1, FALSE, EmptyLog)
    IN  [dev |-> [d EXCEPT !.state.queues[TXQ_INDEX + 1] = r.queue],
         ring |-> r.ring, ret |-> r.have_used, log |-> r.log]

----------------------------------------------------------------------------
(* Actions of the device: one per operation, each recording in op what was *)
(* called, with what, and what it returned.                                *)

PumpQueues == {RXQ_INDEX, TXQ_INDEX}

\* what op keeps of a call: everything, or (detail = FALSE) its name alone
Label(detail, full) == IF detail THEN full ELSE [name |-> full.name]

\* the head a pump un-popped, if it did
LastUndone(log) == IF log.undone = <<>> THEN NoHead ELSE log.undone[Len(log.undone)]

\* what a pump wrote to the used ring (the slots from the old next_used to
\* the new one) and whether it left the slots before them and the available
\* ring alone
PumpRecord(name, q, r, oldQueue, newQueue, oldRing) ==
    [name |-> name,
     q |-> q,
     popped |-> r.log.popped,
     undone |-> r.log.undone,
     calls |-> r.log.calls,
     kept |-> /\ newQueue.next_used >= oldQueue.next_used
              /\ SubSeq(r.ring.used, 1, oldQueue.next_used)
                    = SubSeq(oldRing.used, 1, oldQueue.next_used)
              /\ r.ring.avail = oldRing.avail,
     added |-> SubSeq(r.ring.used, oldQueue.next_used + 1, newQueue.next_used),
     ret |-> r.ret]

VsockInit ==
    /\ \E cid \in Cids, n \in QueueCounts :
          dev = with_queues(cid, [i \in 1..n |-> Queue_new(QUEUE_SIZE)])
    /\ rings = [q \in PumpQueues |-> EmptyRing]
    /\ saved = NoState
    /\ op = NoOp
    /\ requeued = [q \in PumpQueues |-> NoHead]
    /\ sig = SigIdle
    /\ snap = NoSnapshot
    /\ codec = NoCodec
    /\ gm = NoMemory

\* A snapshot is taken of a paused device and restored into a new device
\* object: between save and restore no operation runs on the device.
Running == saved = NoState

\* the heads of queue q the device has not popped yet: a pump calls the
\* backend at most once for each
Unpopped(q) == Len(rings[q].avail) - dev.state.queues[q + 1].next_avail

\* the heads the driver has published so far, on both queues
Published == Len(rings[RXQ_INDEX].avail) + Len(rings[TXQ_INDEX].avail)

\* the driver publishes one more descriptor head on the available ring of q
DriverAvail(q, limit) ==
    /\ Running
    /\ Published < limit
    /\ \E index \in 0..(limit - 1), parse_ok \in BOOLEAN :
          /\ \A i \in 1..Len(rings[q].avail) : rings[q].avail[i].index # index
          /\ rings' = [rings EXCEPT ![q].avail =
                          Append(@, [index |-> index, parse_ok |-> parse_ok])]
    /\ op' = [name |-> "driver"]
    /\ UNCHANGED <<dev, saved, requeued>>
    /\ UNCHANGED <<sig, snap, codec, gm>>

Activate(detail) ==
    /\ Running
    /\ dev.activate_evt < MaxActivate
    /\ \E mem \in Mems, evtOk \in BOOLEAN :
          LET r == activate(dev, mem, evtOk)
          IN  /\ dev' = r.dev
              /\ op' = Label(detail, [name |-> "activate", mem |-> mem, evtOk |-> evtOk,
                                       res |-> r.res])
    /\ UNCHANGED <<rings, saved, requeued>>
    /\ UNCHANGED <<sig, snap, codec, gm>>

\* process_rx runs only on an activated device (the event handler checks it)
ProcessRx(detail) ==
    /\ Running
    /\ is_activated(dev)
    /\ \E backend \in [1..Unpopped(RXQ_INDEX) -> RecvResults] :
          LET r == process_rx(dev, rings[RXQ_INDEX], backend)
          IN  /\ dev' = r.dev
              /\ rings' = [rings EXCEPT ![RXQ_INDEX] = r.ring]
              /\ op' = Label(detail, PumpRecord("process_rx", RXQ_INDEX, r,
                                                 dev.state.queues[RXQ_INDEX + 1],
                                                 r.dev.state.queues[RXQ_INDEX + 1],
                                                 rings[RXQ_INDEX]))
              /\ requeued' = [requeued EXCEPT ![RXQ_INDEX] = LastUndone(r.log)]
    /\ UNCHANGED saved
    /\ UNCHANGED <<sig, snap, codec, gm>>

ProcessTx(detail) ==
    /\ Running
    /\ is_activated(dev)
    /\ \E backend \in [1..Unpopped(TXQ_INDEX) -> SendResults] :
          LET r == process_tx(dev, rings[TXQ_INDEX], backend)
          IN  /\ dev' = r.dev
              /\ rings' = [rings EXCEPT ![TXQ_INDEX] = r.ring]
              /\ op' = Label(detail, PumpRecord("process_tx", TXQ_INDEX, r,
                                                 dev.state.queues[TXQ_INDEX + 1],
                                                 r.dev.state.queues[TXQ_INDEX + 1],
                                                 rings[TXQ_INDEX]))
              /\ requeued' = [requeued EXCEPT ![TXQ_INDEX] = LastUndone(r.log)]
    /\ UNCHANGED saved
    /\ UNCHANGED <<sig, snap, codec, gm>>

SignalUsedQueue(detail) ==
    /\ Running
    /\ dev.interrupt_evt < MaxSignal
    /\ \E evtOk \in BOOLEAN :
          LET r == signal_used_queue(dev, evtOk)
          IN  /\ dev' = r.dev
              /\ op' = Label(detail, [name |-> "signal_used_queue", res |-> r.res])
    /\ UNCHANGED <<rings, saved, requeued>>
    /\ UNCHANGED <<sig, snap, codec, gm>>

\* the u32 values the driver writes when acking a page: no bit, one offered
\* bit of page 1, both, and the complements of the last two
AckBits == {VIRTIO_F_VERSION_1 - 32, VIRTIO_F_IN_ORDER - 32}
AckValues == {{}, {VIRTIO_F_VERSION_1 - 32}, AckBits,
              U32Bits \ {VIRTIO_F_VERSION_1 - 32}, U32Bits \ AckBits}
AckPages == {0, 1, 2}

AckFeatures(detail) ==
    /\ Running
    /\ \E page \in AckPages, value \in AckValues :
          /\ dev' = ack_features_by_page(dev, page, value)
          /\ op' = Label(detail, [name |-> "ack_features_by_page", page |-> page,
                                   value |-> value])
    /\ UNCHANGED <<rings, saved, requeued>>
    /\ UNCHANGED <<sig, snap, codec, gm>>

\* the reads of the config space: the whole CID, its high half, and a read
\* at an offset that holds nothing
ConfigReads == {[offset |-> 0, words |-> 2], [offset |-> 4, words |-> 1],
                [offset |-> 2, words |-> 2]}

ReadConfig(detail) ==
    /\ Running
    /\ \E rd \in ConfigReads :
          op' = Label(detail, [name |-> "read_config", offset |-> rd.offset,
                               data |-> read_config(dev, rd.offset,
                                                    [i \in 1..rd.words |-> 0 - 1])])
    /\ UNCHANGED <<dev, rings, saved, requeued>>
    /\ UNCHANGED <<sig, snap, codec, gm>>

WriteConfig ==
    /\ Running
    /\ dev' = write_config(dev, 0, <<0>>)
    /\ op' = [name |-> "write_config"]
    /\ UNCHANGED <<rings, saved, requeued>>
    /\ UNCHANGED <<sig, snap, codec, gm>>

Save ==
    /\ Running
    /\ saved' = save(dev)
    /\ op' = [name |-> "save"]
    /\ UNCHANGED <<dev, rings, requeued>>
    /\ UNCHANGED <<sig, snap, codec, gm>>

\* Vsock::restore builds a new device object from the saved state
Restore ==
    /\ saved # NoState
    /\ \E mem \in Mems :
          /\ dev' = restore([mem |-> mem], saved)
          /\ op' = [name |-> "restore", mem |-> mem, from |-> dev]
    /\ saved' = NoState
    /\ requeued' = [q \in PumpQueues |-> NoHead]
    /\ UNCHANGED rings
    /\ UNCHANGED <<sig, snap, codec, gm>>

\* the life of a device: every operation, with short rings
VsockNext ==
    \/ \E q \in PumpQueues : DriverAvail(q, MaxAvailLife)
    \/ Activate(FALSE)
    \/ ProcessRx(FALSE)
    \/ ProcessTx(FALSE)
    \/ SignalUsedQueue(FALSE)
    \/ AckFeatures(FALSE)
    \/ ReadConfig(FALSE)
    \/ WriteConfig
    \/ Save
    \/ Restore

\* the pumps of one device: the driver, activation, process_rx, process_tx
PumpNext ==
    \/ \E q \in PumpQueues : DriverAvail(q, MaxAvail)
    \/ Activate(FALSE)
    \/ ProcessRx(TRUE)
    \/ ProcessTx(TRUE)

\* feature negotiation and activation: the driver reads the config space,
\* acks feature pages and activates the device
FeaturesNext ==
    \/ AckFeatures(TRUE)
    \/ ReadConfig(TRUE)
    \/ Activate(TRUE)

----------------------------------------------------------------------------
(* The pumps turn by turn: op holds the pump that is running, its have_used *)
(* and its log; the driver goes on publishing heads while a pump runs.      *)

InLoop == "pc" \in DOMAIN op /\ op.pc = "loop"
Returned == "pc" \in DOMAIN op /\ op.pc = "returned"

\* the driver publishes one more descriptor head, whatever the device does
DriverPublishes(q) ==
    /\ Running
    /\ Published < MaxAvail
    /\ \E index \in 0..(MaxAvail - 1), parse_ok \in BOOLEAN :
          /\ \A i \in 1..Len(rings[q].avail) : rings[q].avail[i].index # index
          /\ rings' = [rings EXCEPT ![q].avail =
                          Append(@, [index |-> index, parse_ok |-> parse_ok])]
    /\ UNCHANGED <<dev, saved, op, requeued>>
    /\ UNCHANGED <<sig, snap, codec, gm>>

\* the event handler calls a pump on an activated device
PumpBegin(name, q) ==
    /\ Running
    /\ is_activated(dev)
    /\ ~InLoop
    /\ op' = [name |-> name, q |-> q, pc |-> "loop", have_used |-> FALSE,
              log |-> EmptyLog]
    /\ UNCHANGED <<dev, rings, saved, requeued>>
    /\ UNCHANGED <<sig, snap, codec, gm>>

\* the running pump takes one turn of its loop
PumpIterate ==
    /\ InLoop
    /\ \E result \in IF op.name = "process_rx" THEN RecvResults ELSE SendResults :
          LET queue == dev.state.queues[op.q + 1]
              it == IF op.name = "process_rx"
                    THEN rx_iteration(queue, rings[op.q], result, op.have_used, op.log)
                    ELSE tx_iteration(queue, rings[op.q], result, op.have_used, op.log)
          IN  /\ dev' = [dev EXCEPT !.state.queues[op.q + 1] = it.queue]
              /\ rings' = [rings EXCEPT ![op.q] = it.ring]
              /\ op' = [op EXCEPT !.pc = it.pc, !.have_used = it.have_used,
                                  !.log = it.log]
              /\ requeued' = IF it.pc = "returned"
                             THEN [requeued EXCEPT ![op.q] = LastUndone(it.log)]
                             ELSE requeued
    /\ UNCHANGED saved
    /\ UNCHANGED <<sig, snap, codec, gm>>

PumpStepsNext ==
    \/ \E q \in PumpQueues : DriverPublishes(q)
    \/ ~InLoop /\ Activate(FALSE)
    \/ PumpBegin("process_rx", RXQ_INDEX)
    \/ PumpBegin("process_tx", TXQ_INDEX)
    \/ PumpIterate

vars == <<dev, rings, saved, op, requeued, sig, snap, codec, gm>>
Init == VsockInit
Next == VsockNext
Spec == Init /\ [][Next]_vars
SpecPump == Init /\ [][PumpNext]_vars
\* the thread that runs a pump goes on running, and backend calls return
SpecPumpSteps == Init /\ [][PumpStepsNext]_vars /\ WF_vars(PumpIterate)
SpecFeatures == Init /\ [][FeaturesNext]_vars

----------------------------------------------------------------------------
(* signal_used_queue, step by step, called from several threads on the     *)
(* shared device while another thread waits on the interrupt eventfd and    *)
(* reads interrupt_status. The atomic is sequentially consistent and the    *)
(* eventfd write is a system call: every execution is an interleaving of    *)
(* the steps.                                                               *)

\* calls of signal_used_queue each thread makes
MaxSignalCalls == 2

\* a thread enters signal_used_queue and runs its first step
SignalFirstStep(t) ==
    /\ sig.pc[t].at = 0
    /\ sig.calls[t] < MaxSignalCalls
    /\ \E evtOk \in BOOLEAN :
          /\ dev' = signal_step(1, dev, evtOk)
          /\ sig' = [sig EXCEPT !.pc[t] = [at |-> 1, evtOk |-> evtOk]]
    /\ op' = [name |-> "signal_used_queue", thread |-> t, step |-> 1]
    /\ UNCHANGED <<rings, saved, requeued, snap, codec, gm>>

\* the thread runs the second step and returns
SignalSecondStep(t) ==
    /\ sig.pc[t].at = 1
    /\ dev' = signal_step(2, dev, sig.pc[t].evtOk)
    /\ sig' = [sig EXCEPT !.pc[t] = [at |-> 0, evtOk |-> TRUE],
                          !.calls[t] = @ + 1]
    /\ op' = [name |-> "signal_used_queue", thread |-> t, step |-> 2]
    /\ UNCHANGED <<rings, saved, requeued, snap, codec, gm>>

\* the waiting thread finds the interrupt eventfd readable and reads it
ObserveNotification ==
    /\ sig.waiter = "waiting"
    /\ dev.interrupt_evt > 0
    /\ dev' = [dev EXCEPT !.interrupt_evt = EventFd_read(@)]
    /\ sig' = [sig EXCEPT !.waiter = "notified"]
    /\ op' = [name |-> "eventfd_read"]
    /\ UNCHANGED <<rings, saved, requeued, snap, codec, gm>>

\* the notified thread loads interrupt_status
ObserveStatus ==
    /\ sig.waiter = "notified"
    /\ sig' = [sig EXCEPT !.waiter = "waiting",
                          !.reads = @ \cup {[notified |-> TRUE,
                                             status |-> dev.state.interrupt_status]}]
    /\ op' = [name |-> "load_status"]
    /\ UNCHANGED <<dev, rings, saved, requeued, snap, codec, gm>>

\* a thread loads interrupt_status without having been notified
PollStatus ==
    /\ sig.waiter = "waiting"
    /\ sig' = [sig EXCEPT !.reads = @ \cup {[notified |-> FALSE,
                                             status |-> dev.state.interrupt_status]}]
    /\ op' = [name |-> "poll_status"]
    /\ UNCHANGED <<dev, rings, saved, requeued, snap, codec, gm>>

SignalNext ==
    \/ \E t \in Signallers : SignalFirstStep(t)
    \/ \E t \in Signallers : SignalSecondStep(t)
    \/ ObserveNotification
    \/ ObserveStatus
    \/ PollStatus

SpecSignal == Init /\ [][SignalNext]_vars

----------------------------------------------------------------------------
(* The encoding of versioned values (src/snapshot/src/primitives.rs and the *)
(* code src/snapshot_derive/src/lib.rs generates for a struct). A byte is  *)
(* a number in 0..255, a stream is a sequence of bytes, a String is the    *)
(* sequence of its bytes. A u64 is the tuple of its four 16-bit limbs,     *)
(* lowest first.                                                           *)

\* the n-th (from 0) version of the type mapping: VersionMap (provided by
\* src/snapshot/src/version_map.rs) is a list of app versions, each the set
\* of the type versions set in it
VersionMap_new == << {} >>
\* a new app version that starts with no type version set
new_version_empty(vm) == Append(vm, {})
new_version(vm) == Append(vm, vm[Len(vm)])
set_type_version(vm, type_name, type_version) ==
    [vm EXCEPT ![Len(vm)] = {e \in @ : e.type # type_name}
                               \cup {[type |-> type_name, version |-> type_version]}]
get_latest_version(vm) == Len(vm)
get_type_version(vm, app_version, type_name) ==
    IF app_version \in 1..Len(vm) /\ \E e \in vm[app_version] : e.type = type_name
    THEN (CHOOSE e \in vm[app_version] : e.type = type_name).version
    ELSE 1

\* the k low bytes of n, lowest first
RECURSIVE LE(_, _)
LE(n, k) == IF k = 0 THEN <<>> ELSE <<n % 256>> \o LE(n \div 256, k - 1)

\* the number a little-endian byte string stands for
RECURSIVE FromLE(_)
FromLE(bytes) ==
    IF bytes = <<>> THEN 0 ELSE Head(bytes) + 256 * FromLE(Tail(bytes))

\* a number below 2^31 as a u64, and back
U64(n) == <<n % 65536, n \div 65536, 0, 0>>
U64Small(limbs) == limbs[3] = 0 /\ limbs[4] = 0 /\ limbs[2] < 32768
U64ToNat(limbs) == limbs[1] + 65536 * limbs[2]

\* the types of the values
T_u8 == [kind |-> "prim", name |-> "u8"]
T_u16 == [kind |-> "prim", name |-> "u16"]
T_u32 == [kind |-> "prim", name |-> "u32"]
T_u64 == [kind |-> "prim", name |-> "u64"]
T_String == [kind |-> "prim", name |-> "String"]
T_bool == [kind |-> "prim", name |-> "bool"]
T_i8 == [kind |-> "prim", name |-> "i8"]
T_i32 == [kind |-> "prim", name |-> "i32"]
T_i64 == [kind |-> "prim", name |-> "i64"]
T_usize == [kind |-> "prim", name |-> "usize"]
T_Vec(elem) == [kind |-> "vec", elem |-> elem]
T_Array(elem, len) == [kind |-> "array", elem |-> elem, len |-> len]
\* no default_fn, semantic_ser_fn or semantic_de_fn attribute
NoFn == "none"
\* StructField::new with the snapshot attributes of the field
VersionedField(name, ty, start_version, end_version, default_fn, semantic_ser_fn, semantic_de_fn) ==
    [name |-> name, ty |-> ty,
     start_version |-> start_version, end_version |-> end_version,
     default_fn |-> default_fn,
     semantic_ser_fn |-> semantic_ser_fn, semantic_de_fn |-> semantic_de_fn]
\* StructField::new: start_version is 1 and end_version 0 unless an
\* attribute sets them
Field(name, ty) == VersionedField(name, ty, 1, 0, NoFn, NoFn, NoFn)
T_Struct(name, fields) == [kind |-> "struct", name |-> name, fields |-> fields]
\* EnumVariant::new: a variant with its snapshot attributes; a value of the
\* enum is the ident of its variant
Variant(ident, discriminant, start_version, end_version, default_fn) ==
    [ident |-> ident, discriminant |-> discriminant,
     start_version |-> start_version, end_version |-> end_version,
     default_fn |-> default_fn]
\* an enum: its variants in declaration order and the variant its Default
\* implementation returns
T_Enum(name, variants, default) ==
    [kind |-> "enum", name |-> name, fields |-> variants, default |-> default]

\* what a writer got, or the panic of an unwrap
Written(bytes) == [ok |-> TRUE, bytes |-> bytes]
WritePanic == [ok |-> FALSE]
WriteThen(w1, w2) ==
    IF w1.ok /\ w2.ok THEN Written(w1.bytes \o w2.bytes) ELSE WritePanic

\* what a reader produced and what is left of the stream, or the panic of
\* an unwrap
ReadOk(value, rest) == [ok |-> TRUE, value |-> value, rest |-> rest]
ReadPanic == [ok |-> FALSE]

\* bytes of the fixed-width integers
PrimSize(ty) ==
    CASE ty.name = "u8" -> 1
      [] ty.name = "u16" -> 2
      [] ty.name = "u32" -> 4
      [] ty.name = "i32" -> 4
      [] ty.name = "i64" -> 8
      [] ty.name = "u64" -> 8
      [] ty.name = "usize" -> 8
      [] ty.name = "bool" -> 1
      [] ty.name = "i8" -> 1

\* the eight bytes of a u64
U64Bytes(limbs) ==
    LE(limbs[1], 2) \o LE(limbs[2], 2) \o LE(limbs[3], 2) \o LE(limbs[4], 2)

\* bincode::serialize_into of a primitive: a String is its length as a u64
\* and its bytes
serialize_prim(ty, v) ==
    CASE ty.name \in {"u64", "usize", "i64"} -> Written(U64Bytes(v))
      [] ty.name = "String" -> Written(U64Bytes(U64(Len(v))) \o v)
      [] ty.name = "bool" -> Written(<<IF v THEN 1 ELSE 0>>)
      [] ty.name = "i8" -> Written(<<v % 256>>)
      [] OTHER -> Written(LE(v, PrimSize(ty)))

\* bincode::deserialize_from of a primitive: fails on a short stream and on
\* a byte that is no bool
deserialize_prim(ty, bytes) ==
    CASE ty.name \in {"u64", "usize", "i64"} ->
            IF Len(bytes) < 8 THEN ReadPanic
            ELSE ReadOk([i \in 1..4 |-> FromLE(SubSeq(bytes, 2 * i - 1, 2 * i))],
                        SubSeq(bytes, 9, Len(bytes)))
      [] ty.name = "String" ->
            IF Len(bytes) < 8 THEN ReadPanic
            ELSE LET limbs == [i \in 1..4 |-> FromLE(SubSeq(bytes, 2 * i - 1, 2 * i))]
                     len == U64ToNat(limbs)
                 IN  IF ~U64Small(limbs) \/ Len(bytes) < 8 + len THEN ReadPanic
                     ELSE ReadOk(SubSeq(bytes, 9, 8 + len),
                                 SubSeq(bytes, 9 + len, Len(bytes)))
      [] ty.name = "bool" ->
            IF bytes = <<>> \/ Head(bytes) > 1 THEN ReadPanic
            ELSE ReadOk(Head(bytes) = 1, Tail(bytes))
      [] ty.name = "i8" ->
            IF bytes = <<>> THEN ReadPanic
            ELSE ReadOk(IF Head(bytes) >= 128 THEN Head(bytes) - 256 ELSE Head(bytes),
                        Tail(bytes))
      [] ty.name = "i32" ->
            IF Len(bytes) < 4 THEN ReadPanic
            ELSE ReadOk(FromLE(SubSeq(bytes, 1, 3))
                           + 16777216 * (IF bytes[4] >= 128 THEN bytes[4] - 256
                                         ELSE bytes[4]),
                        SubSeq(bytes, 5, Len(bytes)))
      [] OTHER ->
            IF Len(bytes) < PrimSize(ty) THEN ReadPanic
            ELSE ReadOk(FromLE(SubSeq(bytes, 1, PrimSize(ty))),
                        SubSeq(bytes, PrimSize(ty) + 1, Len(bytes)))

\* Default::default()
RECURSIVE Default(_)
Default(ty) ==
    CASE ty.kind = "prim" ->
            (CASE ty.name = "String" -> <<>>
               [] ty.name \in {"u64", "usize", "i64"} -> U64(0)
               [] ty.name = "bool" -> FALSE
               [] OTHER -> 0)
      [] ty.kind = "enum" -> ty.default
      [] ty.kind = "vec" -> <<>>
      [] ty.kind = "array" -> [i \in 1..ty.len |-> Default(ty.elem)]
      [] ty.kind = "struct" ->
            [n \in {ty.fields[i].name : i \in 1..Len(ty.fields)} |->
                Default((CHOOSE f \in {ty.fields[i] : i \in 1..Len(ty.fields)} :
                            f.name = n).ty)]

Max(a, b) == IF a >= b THEN a ELSE b

\* DataDescriptor::new: the latest version of a struct is the highest
\* start_version or end_version of its fields
descriptor_version(fields) ==
    LET versions == {1} \cup {Max(fields[i].start_version, fields[i].end_version) :
                                 i \in 1..Len(fields)}
    IN  CHOOSE version \in versions : \A other \in versions : version >= other

\* the test the generated code makes for every field: it exists in a version
FieldExists(field, version) ==
    ~(version < field.start_version
        \/ (field.end_version > 0 /\ version > field.end_version))

\* `x as u32` of a u64
AsU32(limbs) == limbs[1] + 65536 * limbs[2]

\* the default_fn functions of the structs of the tests
\* (field2_default, field3_default, field4_default, default_A_z,
\* default_error), called with the version of the struct
call_default_fn(fn, version) ==
    CASE fn = "field2_default" -> U64(20)
      [] fn = "field3_default" -> <<100, 101, 102, 97, 117, 108, 116>>
      [] fn = "field4_default" -> <<U64(1), U64(2), U64(3), U64(4)>>
      [] fn = "default_A_z" -> <<119, 104, 97, 116, 101, 118, 101, 114>>
      [] fn = "default_error" ->
            <<100, 101, 102, 97, 117, 108, 116, 95, 101, 114, 114, 111, 114>>

\* "alabalaportocala"
Alabalaportocala ==
    <<97, 108, 97, 98, 97, 108, 97, 112, 111, 114, 116, 111, 99, 97, 108, 97>>

\* the semantic functions of the structs of the tests (semantic_x,
\* serialize_error_semantic, deserialize_error_semantic), called with the
\* object and the version of the struct: the object they leave
call_semantic_fn(fn, object, version) ==
    CASE fn = "semantic_x" -> [object EXCEPT !.x = AsU32(object.q)]
      [] fn = "serialize_error_semantic" ->
            IF version \in 1..2
            THEN [object EXCEPT !.irq = IF object.error = Alabalaportocala
                                         THEN 1337 ELSE 1984]
            ELSE object
      [] fn = "deserialize_error_semantic" ->
            IF version \in 1..2 /\ object.irq = 1337
            THEN [object EXCEPT !.error = Alabalaportocala]
            ELSE object

\* a generator that emits the semantic_ser_fn of every field that has one
semantic_ser_fns_all(fields, version) ==
    LET has_fn(field) == field.semantic_ser_fn # NoFn
        calls == SelectSeq(fields, has_fn)
    IN  [i \in 1..Len(calls) |-> calls[i].semantic_ser_fn]

\* the calls StructField::generate_semantic_serializer emits for a version,
\* in declaration order: the semantic_ser_fn of every field that has one
\* and does not exist in the version
semantic_ser_fns(fields, version) ==
    LET missing(field) == ~FieldExists(field, version) /\ field.semantic_ser_fn # NoFn
        calls == SelectSeq(fields, missing)
    IN  [i \in 1..Len(calls) |-> calls[i].semantic_ser_fn]

\* the calls StructField::generate_semantic_deserializer emits for a version
semantic_de_fns(fields, version) ==
    LET missing(field) == ~FieldExists(field, version) /\ field.semantic_de_fn # NoFn
        calls == SelectSeq(fields, missing)
    IN  [i \in 1..Len(calls) |-> calls[i].semantic_de_fn]

\* the object after the calls, each on what the one before left
RECURSIVE call_semantic_fns(_, _, _)
call_semantic_fns(fns, object, version) ==
    IF fns = <<>> THEN object
    ELSE call_semantic_fns(Tail(fns), call_semantic_fn(Head(fns), object, version),
                           version)

\* the semantic serializer of a version runs on the copy of self
semantic_serializer(fields, copy_of_self, version) ==
    call_semantic_fns(semantic_ser_fns(fields, version), copy_of_self, version)

\* the semantic deserializer of a version runs on the object built from the
\* fields
semantic_deserializer(fields, object, version) ==
    call_semantic_fns(semantic_de_fns(fields, version), object, version)

\* the default_fn functions of the enum of the tests
\* (test_state_default_one, test_state_default_two), called with the value
\* and the version of the enum: the variant they return
call_variant_default_fn(fn, self, version) ==
    CASE fn = "test_state_default_one" -> "Two"
      [] fn = "test_state_default_two" ->
            (CASE version = 3 -> "Three"
               [] version = 2 -> "Two"
               [] OTHER -> "One")

\* the position of a variant in the declaration of its enum, from 0: what
\* bincode writes for a value of the enum, as a u32
variant_index(ty, ident) ==
    (CHOOSE i \in 1..Len(ty.fields) : ty.fields[i].ident = ident) - 1

\* EnumVariant::generate_serializer, the match arm of the variant of self:
\* the variant that is written is self when its variant exists in the
\* version, and what the default_fn of its variant returns when not
enum_serialized_variant(ty, self, version) ==
    LET variant == ty.fields[variant_index(ty, self) + 1]
    IN  IF ~FieldExists(variant, version)
        THEN call_variant_default_fn(variant.default_fn, self, version)
        ELSE self

RECURSIVE serialize(_, _, _, _)
RECURSIVE serialize_elems(_, _, _, _)
RECURSIVE serialize_fields(_, _, _, _, _)

\* Vec<T>::serialize, the loop over the elements: the encodings of the
\* elements one after the other (computed by halves)
serialize_elems(elem, v, version_map, app_version) ==
    IF v = <<>> THEN Written(<<>>)
    ELSE IF Len(v) = 1 THEN serialize(elem, v[1], version_map, app_version)
    ELSE LET half == Len(v) \div 2
         IN  WriteThen(serialize_elems(elem, SubSeq(v, 1, half),
                                       version_map, app_version),
                       serialize_elems(elem, SubSeq(v, half + 1, Len(v)),
                                       version_map, app_version))

\* StructField::generate_serializer: a field that exists in the version is
\* serialized, one that does not is skipped
serialize_field(field, v, version_map, app_version, version) ==
    IF FieldExists(field, version)
    THEN serialize(field.ty, v[field.name], version_map, app_version)
    ELSE Written(<<>>)

\* the serializers of the fields in declaration order (computed by halves)
serialize_fields(fields, v, version_map, app_version, version) ==
    IF fields = <<>> THEN Written(<<>>)
    ELSE IF Len(fields) = 1
    THEN serialize_field(fields[1], v, version_map, app_version, version)
    ELSE LET half == Len(fields) \div 2
         IN  WriteThen(serialize_fields(SubSeq(fields, 1, half), v, version_map,
                                        app_version, version),
                       serialize_fields(SubSeq(fields, half + 1, Len(fields)), v,
                                        version_map, app_version, version))

\* Versionize::serialize: a primitive by bincode; a Vec, and an array as a
\* Vec, by its length and its elements; a struct by the generated code, the
\* semantic functions first, on a copy, and then the fields of the copy
serialize(ty, v, version_map, app_version) ==
    CASE ty.kind = "prim" -> serialize_prim(ty, v)
      [] ty.kind \in {"vec", "array"} ->
            WriteThen(serialize_prim(T_u64, U64(Len(v))),
                      serialize_elems(ty.elem, v, version_map, app_version))
      [] ty.kind = "struct" ->
            LET version == get_type_version(version_map, app_version, ty.name)
            IN  IF version \in 1..descriptor_version(ty.fields)
                THEN LET copy_of_self == semantic_serializer(ty.fields, v, version)
                     IN  serialize_fields(ty.fields, copy_of_self, version_map,
                                          app_version, version)
                ELSE WritePanic
      [] ty.kind = "enum" ->
            LET version == get_type_version(version_map, app_version, ty.name)
            IN  IF version \in 1..descriptor_version(ty.fields)
                THEN serialize_prim(T_u32,
                        variant_index(ty, enum_serialized_variant(ty, v, version)))
                ELSE WritePanic

RECURSIVE deserialize(_, _, _, _)
RECURSIVE deserialize_elems(_, _, _, _, _)
RECURSIVE deserialize_fields(_, _, _, _, _, _)

\* whether every value of the type has the same number of bytes
FixedSize(ty) == ty.kind = "prim" /\ ty.name # "String"

\* Vec<T>::deserialize, the loop that reads len elements (elements of a
\* fixed size are cut out of the stream by their position)
deserialize_elems(elem, len, bytes, version_map, app_version) ==
    IF len = 0 THEN ReadOk(<<>>, bytes)
    ELSE IF FixedSize(elem)
    THEN IF Len(bytes) < len * PrimSize(elem) THEN ReadPanic
         ELSE LET items == [i \in 1..len |->
                              deserialize_prim(elem,
                                  SubSeq(bytes, (i - 1) * PrimSize(elem) + 1,
                                         i * PrimSize(elem)))]
              IN  IF \E i \in 1..len : ~items[i].ok THEN ReadPanic
                  ELSE ReadOk([i \in 1..len |-> items[i].value],
                              SubSeq(bytes, len * PrimSize(elem) + 1, Len(bytes)))
    ELSE LET first == deserialize(elem, bytes, version_map, app_version)
         IN  IF ~first.ok THEN ReadPanic
             ELSE LET others == deserialize_elems(elem, len - 1, first.rest,
                                                  version_map, app_version)
                  IN  IF ~others.ok THEN ReadPanic
                      ELSE ReadOk(<<first.value>> \o others.value, others.rest)

\* the generated code passing the app version it was given to default_fn
default_fn_arg_app_version(app_version, version) == app_version

\* the argument of default_fn in the generated code: `version`, which is
\* version_map.get_type_version(app_version, &Self::name())
default_fn_arg(app_version, version) == version

\* the calls of default_fn functions the field deserializers of a version
\* make, in declaration order
default_fn_calls(fields, app_version, version) ==
    LET missing(field) == ~FieldExists(field, version) /\ field.default_fn # NoFn
        calls == SelectSeq(fields, missing)
    IN  [i \in 1..Len(calls) |->
            [fn |-> calls[i].default_fn, arg |-> default_fn_arg(app_version, version)]]

\* generate_deserializer that gives a missing field its Default also when
\* it has a default_fn
deserialize_field_no_default_fn(field, bytes, version_map, app_version, version) ==
    IF FieldExists(field, version)
    THEN deserialize(field.ty, bytes, version_map, app_version)
    ELSE ReadOk(Default(field.ty), bytes)

\* StructField::generate_deserializer: a field that exists in the version is
\* deserialized, one that does not gets what its default_fn returns, or its
\* Default
deserialize_field(field, bytes, version_map, app_version, version) ==
    IF FieldExists(field, version)
    THEN deserialize(field.ty, bytes, version_map, app_version)
    ELSE IF field.default_fn # NoFn
    THEN ReadOk(call_default_fn(field.default_fn,
                                default_fn_arg(app_version, version)), bytes)
    ELSE ReadOk(Default(field.ty), bytes)

\* the deserializers of the fields in declaration order, each reading where
\* the one before stopped (computed by halves)
deserialize_fields(fields, bytes, version_map, app_version, version, object) ==
    IF fields = <<>> THEN ReadOk(object, bytes)
    ELSE IF Len(fields) = 1
    THEN LET got == deserialize_field(fields[1], bytes, version_map, app_version,
                                      version)
         IN  IF ~got.ok THEN ReadPanic
             ELSE ReadOk([object EXCEPT ![fields[1].name] = got.value], got.rest)
    ELSE LET half == Len(fields) \div 2
             first == deserialize_fields(SubSeq(fields, 1, half), bytes, version_map,
                                         app_version, version, object)
         IN  IF ~first.ok THEN ReadPanic
             ELSE deserialize_fields(SubSeq(fields, half + 1, Len(fields)),
                                     first.rest, version_map, app_version, version,
                                     first.value)

\* Versionize::deserialize; an array field is read as a Vec and its first
\* len elements copied (transform_vec fails on a shorter Vec); an enum is
\* whatever variant bincode finds encoded
deserialize(ty, bytes, version_map, app_version) ==
    CASE ty.kind = "prim" -> deserialize_prim(ty, bytes)
      [] ty.kind \in {"vec", "array"} ->
            LET len == deserialize_prim(T_u64, bytes)
            IN  IF ~len.ok THEN ReadPanic
                ELSE IF ~U64Small(len.value) THEN ReadPanic
                ELSE LET elems == deserialize_elems(ty.elem, U64ToNat(len.value),
                                                    len.rest, version_map, app_version)
                     IN  IF ~elems.ok THEN ReadPanic
                         ELSE IF ty.kind = "vec" THEN elems
                         ELSE IF Len(elems.value) < ty.len THEN ReadPanic
                         ELSE ReadOk(SubSeq(elems.value, 1, ty.len), elems.rest)
      [] ty.kind = "struct" ->
            LET version == get_type_version(version_map, app_version, ty.name)
            IN  IF version \in 1..descriptor_version(ty.fields)
                THEN LET r == deserialize_fields(ty.fields, bytes, version_map,
                                                 app_version, version, Default(ty))
                     IN  IF ~r.ok THEN ReadPanic
                         ELSE ReadOk(semantic_deserializer(ty.fields, r.value, version),
                                     r.rest)
                ELSE ReadPanic
      [] ty.kind = "enum" ->
            LET index == deserialize_prim(T_u32, bytes)
            IN  IF ~index.ok THEN ReadPanic
                ELSE IF index.value >= Len(ty.fields) THEN ReadPanic
                ELSE ReadOk(ty.fields[index.value + 1].ident, index.rest)

----------------------------------------------------------------------------
(* Unions (src/snapshot_derive/src/descriptor.rs, union_field.rs). A value *)
(* of a union is its storage, a sequence of bytes every field is laid over *)
(* from the first byte on.                                                  *)

T_Union(name, fields, size) ==
    [kind |-> "union", name |-> name, fields |-> fields, size |-> size]

\* std::mem::size_of::<T>() of a field type
RECURSIVE size_of(_)
size_of(ty) ==
    IF ty.kind = "array" THEN ty.len * size_of(ty.elem) ELSE PrimSize(ty)

\* the value of a field read from the storage of a union
RECURSIVE read_union_field(_, _)
read_union_field(ty, storage) ==
    IF ty.kind = "array"
    THEN [i \in 1..ty.len |->
            read_union_field(ty.elem,
                SubSeq(storage, (i - 1) * size_of(ty.elem) + 1, Len(storage)))]
    ELSE deserialize_prim(ty, SubSeq(storage, 1, size_of(ty))).value

\* the bytes a value of a field type has in memory
RECURSIVE memory_bytes(_, _)
memory_bytes(ty, v) ==
    IF ty.kind = "array"
    THEN IF ty.len = 0 THEN <<>>
         ELSE memory_bytes(ty.elem, v[1])
                 \o memory_bytes(T_Array(ty.elem, ty.len - 1), Tail(v))
    ELSE serialize_prim(ty, v).bytes

\* the storage of a union after a value was assigned to one of its fields
write_union_field(ty, storage, v) ==
    memory_bytes(ty, v) \o SubSeq(storage, size_of(ty) + 1, Len(storage))

\* the fields generate_union_serializer and generate_union_deserializer
\* take for a version, in declaration order
union_fields(fields, version) ==
    LET taken(field) ==
           \/ version >= field.start_version
           \/ field.end_version > 0 /\ version <= field.end_version
    IN  SelectSeq(fields, taken)

\* the size_vector of the generated code: for every field taken, the
\* expression `std::mem::size_of::<T> as usize`, which is the address the
\* build gave the function size_of::<T> (fn_addr), the function not being
\* called
size_vector(fields, version, fn_addr) ==
    LET taken == union_fields(fields, version)
    IN  [i \in 1..Len(taken) |-> fn_addr[taken[i].ty]]

\* the loop over the size_vector: the index, from 0, of the first element
\* greater than every one before it and not less than any after; 0 for an
\* empty vector
largest_field_index(sizes) ==
    IF sizes = <<>> THEN 0
    ELSE (CHOOSE i \in 1..Len(sizes) :
             /\ \A j \in 1..Len(sizes) : sizes[j] <= sizes[i]
             /\ \A j \in 1..(i - 1) : sizes[j] < sizes[i]) - 1

\* the field the generated match on largest_field_index selects
\* ("none" when no arm matches and the code panics)
union_largest_field(ty, version, fn_addr) ==
    LET taken == union_fields(ty.fields, version)
        index == largest_field_index(size_vector(ty.fields, version, fn_addr))
    IN  IF index + 1 \in 1..Len(taken) THEN taken[index + 1].name ELSE "none"

\* the field of a union by its name
union_field(ty, name) ==
    ty.fields[CHOOSE i \in 1..Len(ty.fields) : ty.fields[i].name = name]

\* the generated serialize of a union: the selected field of copy_of_self
\* is serialized, an array as a Vec
union_serialize(ty, self, version_map, app_version, fn_addr) ==
    LET version == get_type_version(version_map, app_version, ty.name)
        name == union_largest_field(ty, version, fn_addr)
    IN  IF version \notin 1..descriptor_version(ty.fields) \/ name = "none"
        THEN WritePanic
        ELSE serialize(union_field(ty, name).ty,
                       read_union_field(union_field(ty, name).ty, self),
                       version_map, app_version)

\* the generated deserialize of a union: the selected field of
\* Self::default() is assigned what is deserialized
union_deserialize(ty, bytes, version_map, app_version, fn_addr) ==
    LET version == get_type_version(version_map, app_version, ty.name)
        name == union_largest_field(ty, version, fn_addr)
    IN  IF version \notin 1..descriptor_version(ty.fields) \/ name = "none"
        THEN ReadPanic
        ELSE LET got == deserialize(union_field(ty, name).ty, bytes, version_map,
                                    app_version)
             IN  IF ~got.ok THEN ReadPanic
                 ELSE ReadOk(write_union_field(union_field(ty, name).ty,
                                               [i \in 1..ty.size |-> 0], got.value),
                             got.rest)

----------------------------------------------------------------------------
(* The snapshot container (src/snapshot/src/lib.rs). The sections of a     *)
(* Snapshot (a HashMap keyed by name) are a set of Section values with     *)
(* distinct names.                                                         *)

\* 256k max section size
SNAPSHOT_MAX_SECTION_SIZE == 262144
SNAPSHOT_FORMAT_VERSION == 1
\* 0x0710_1984_8664_0000 (x86_64), as limbs
BASE_MAGIC_ID == <<0, 34404, 6532, 1808>>

Some(v) == [some |-> TRUE, value |-> v]
None == [some |-> FALSE]

\* a validation that compares the whole magic id
validate_magic_id_unmasked(magic_id) ==
    IF magic_id = BASE_MAGIC_ID THEN Some(magic_id[1]) ELSE None

\* the arch id is the three high limbs (BASE_MAGIC_ID_MASK = !0xFFFF), the
\* format version the lowest
validate_magic_id(magic_id) ==
    IF [magic_id EXCEPT ![1] = 0] = BASE_MAGIC_ID THEN Some(magic_id[1]) ELSE None

build_magic_id(format_version) == [BASE_MAGIC_ID EXCEPT ![1] = format_version]

SnapshotHdr_T ==
    T_Struct("SnapshotHdr", <<Field("data_version", T_u16), Field("section_count", T_u16)>>)
Section_T ==
    T_Struct("Section", <<Field("name", T_String), Field("data", T_Vec(T_u8))>>)

\* Snapshot::format_version_map
format_version_map == VersionMap_new

\* Snapshot::new
Snapshot_new(version_map, target_version) ==
    [version_map |-> version_map,
     hdr |-> Default(SnapshotHdr_T),
     format_version |-> SNAPSHOT_FORMAT_VERSION,
     sections |-> {},
     target_version |-> target_version]

\* HashMap::insert: the entry of that name, if any, is replaced
insert(sections, section) ==
    {e \in sections : e.name # section.name} \cup {section}

\* write_section that keeps the section already stored under the name
write_section_keep_first(snapshot, ty, name, object) ==
    LET w == serialize(ty, object, snapshot.version_map, snapshot.target_version)
    IN  IF ~w.ok \/ Len(w.bytes) > SNAPSHOT_MAX_SECTION_SIZE
        THEN [ok |-> FALSE]
        ELSE [ok |-> TRUE,
              snapshot |->
                 IF \E e \in snapshot.sections : e.name = name THEN snapshot
                 ELSE [snapshot EXCEPT !.sections =
                          insert(@, [name |-> name, data |-> w.bytes])]]

\* Snapshot::write_section: the object is serialized at target_version into
\* a buffer of SNAPSHOT_MAX_SECTION_SIZE bytes, cut to what was written
write_section(snapshot, ty, name, object) ==
    LET w == serialize(ty, object, snapshot.version_map, snapshot.target_version)
    IN  IF ~w.ok \/ Len(w.bytes) > SNAPSHOT_MAX_SECTION_SIZE
        THEN [ok |-> FALSE]
        ELSE [ok |-> TRUE,
              snapshot |-> [snapshot EXCEPT !.sections =
                               insert(@, [name |-> name, data |-> w.bytes])]]

\* Snapshot::read_section: the object is deserialized at hdr.data_version
read_section(snapshot, ty, name) ==
    IF \E e \in snapshot.sections : e.name = name
    THEN LET section == CHOOSE e \in snapshot.sections : e.name = name
             r == deserialize(ty, section.data, snapshot.version_map,
                              snapshot.hdr.data_version)
         IN  IF r.ok THEN [ok |-> TRUE, result |-> Some(r.value)] ELSE [ok |-> FALSE]
    ELSE [ok |-> TRUE, result |-> None]

\* Snapshot::save, the loop over the sections in the order the HashMap
\* yields them
RECURSIVE save_sections(_)
save_sections(order) ==
    IF order = <<>> THEN Written(<<>>)
    ELSE WriteThen(serialize(Section_T, Head(order), format_version_map,
                             get_latest_version(format_version_map)),
                   save_sections(Tail(order)))

\* Snapshot::save: sets the header (sections.len() as u16), writes the magic
\* id, the header and the sections
Snapshot_save(snapshot, order) ==
    LET hdr == [data_version |-> snapshot.target_version,
                section_count |-> Cardinality(snapshot.sections) % 65536]
        magic_id == build_magic_id(get_latest_version(format_version_map))
        w == WriteThen(serialize(T_u64, magic_id, format_version_map, 0),
                WriteThen(serialize(SnapshotHdr_T, hdr, format_version_map,
                                    get_latest_version(format_version_map)),
                          save_sections(order)))
    IN  [ok |-> w.ok,
         snapshot |-> [snapshot EXCEPT !.hdr = hdr],
         bytes |-> IF w.ok THEN w.bytes ELSE <<>>]

\* Snapshot::load, the loop that reads section_count sections
RECURSIVE load_sections(_, _, _, _)
load_sections(count, bytes, format_version, sections) ==
    IF count = 0 THEN ReadOk(sections, bytes)
    ELSE LET r == deserialize(Section_T, bytes, format_version_map, format_version)
         IN  IF ~r.ok THEN ReadPanic
             ELSE load_sections(count - 1, r.rest, format_version,
                                insert(sections, r.value))

\* load ends in a panic: validate_magic_id(..).unwrap() on None, or the
\* unwrap() of a deserializer on a stream it cannot decode
LoadPanic == [ok |-> FALSE, panic |-> TRUE]

\* Snapshot::load: Ok(Snapshot) is its only return
Snapshot_load(bytes, version_map) ==
    LET magic_id == deserialize(T_u64, bytes, format_version_map, 0)
    IN  IF ~magic_id.ok THEN LoadPanic
        ELSE LET format_version == validate_magic_id(magic_id.value)
             IN  IF ~format_version.some THEN LoadPanic
                 ELSE LET hdr == deserialize(SnapshotHdr_T, magic_id.rest,
                                             format_version_map, format_version.value)
                      IN  IF ~hdr.ok THEN LoadPanic
                          ELSE LET r == load_sections(hdr.value.section_count, hdr.rest,
                                                      format_version.value, {})
                               IN  IF ~r.ok THEN LoadPanic
                                   ELSE [ok |-> TRUE,
                                         snapshot |->
                                            [version_map |-> version_map,
                                             hdr |-> hdr.value,
                                             format_version |-> format_version.value,
                                             sections |-> r.value,
                                             target_version |-> 0]]

----------------------------------------------------------------------------
(* A Snapshot is created, sections are written to it, it is saved, the     *)
(* bytes are loaded into a new Snapshot and sections are read from that.   *)

\* "test", "basic"
Str_test == <<116, 101, 115, 116>>
Str_basic == <<98, 97, 115, 105, 99>>

\* write_section calls on one Snapshot
MaxWrites == 3

\* "test", "first", "second"
SectionNames == {<<116, 101, 115, 116>>,
                 <<102, 105, 114, 115, 116>>,
                 <<115, 101, 99, 111, 110, 100>>}

\* tests::test_kvm_bindings_struct: struct kvm_pit_config
kvm_pit_config_T ==
    T_Struct("kvm_pit_config",
             <<Field("flags", T_u32), Field("pad", T_Array(T_u32, 15))>>)

\* the objects written: the one of the test, and one with other bytes
PitConfigs ==
    {[flags |-> 123456, pad |-> [i \in 1..15 |-> 0]],
     [flags |-> 16909060, pad |-> [i \in 1..15 |-> IF i = 15 THEN 258 ELSE 0]]}

\* the version maps a Snapshot is created and loaded with: one app version,
\* two app versions
VersionMaps == {VersionMap_new, new_version(VersionMap_new)}

\* the orders in which a HashMap can yield its entries
Orders(sections) ==
    {order \in [1..Cardinality(sections) -> sections] :
        \A i, j \in 1..Cardinality(sections) : i # j => order[i] # order[j]}

InitSnap ==
    /\ Init
    /\ Len(dev.state.queues) = NUM_QUEUES

SnapNew ==
    /\ snap = NoSnapshot
    /\ \E version_map \in VersionMaps :
          \E target_version \in 1..get_latest_version(version_map) :
             snap' = [pc |-> "writing",
                      snapshot |-> Snapshot_new(version_map, target_version),
                      written |-> {},
                      writes |-> 0,
                      bytes |-> <<>>,
                      loaded |-> NoSnapshot]
    /\ op' = [name |-> "Snapshot_new"]
    /\ UNCHANGED <<dev, rings, saved, requeued, sig, codec, gm>>

SnapWriteSection ==
    /\ snap.pc = "writing"
    /\ snap.writes < MaxWrites
    /\ \E name \in SectionNames, object \in PitConfigs :
          LET r == write_section(snap.snapshot, kvm_pit_config_T, name, object)
          IN  /\ r.ok
              /\ snap' = [snap EXCEPT
                            !.snapshot = r.snapshot,
                            !.written = {w \in @ : w.name # name}
                                           \cup {[name |-> name, object |-> object]},
                            !.writes = @ + 1]
              /\ op' = [name |-> "write_section", section |-> name]
    /\ UNCHANGED <<dev, rings, saved, requeued, sig, codec, gm>>

SnapSave ==
    /\ snap.pc = "writing"
    /\ \E order \in Orders(snap.snapshot.sections) :
          LET r == Snapshot_save(snap.snapshot, order)
          IN  /\ r.ok
              /\ snap' = [snap EXCEPT !.pc = "saved",
                                      !.snapshot = r.snapshot,
                                      !.bytes = r.bytes]
    /\ op' = [name |-> "save"]
    /\ UNCHANGED <<dev, rings, saved, requeued, sig, codec, gm>>

SnapLoad ==
    /\ snap.pc = "saved"
    /\ LET r == Snapshot_load(snap.bytes, snap.snapshot.version_map)
       IN  snap' = IF r.ok
                   THEN [snap EXCEPT !.pc = "loaded", !.loaded = r.snapshot]
                   ELSE [snap EXCEPT !.pc = "panicked"]
    /\ op' = [name |-> "load"]
    /\ UNCHANGED <<dev, rings, saved, requeued, sig, codec, gm>>

SnapReadSection ==
    /\ snap.pc = "loaded"
    /\ \E name \in SectionNames :
          LET r == read_section(snap.loaded, kvm_pit_config_T, name)
          IN  op' = [name |-> "read_section",
                     section |-> name,
                     ok |-> r.ok,
                     result |-> IF r.ok THEN r.result ELSE None]
    /\ UNCHANGED <<dev, rings, saved, requeued, sig, snap, codec, gm>>

SnapNext ==
    \/ SnapNew
    \/ SnapWriteSection
    \/ SnapSave
    \/ SnapLoad
    \/ SnapReadSection

SpecSnap == InitSnap /\ [][SnapNext]_vars

----------------------------------------------------------------------------
(* A VersionMap is created and app versions and type versions are added to *)
(* it, as the tests do by chained calls; the calls made are kept.          *)

\* calls on one VersionMap, and the type names and type versions they use
MaxVmCalls == 4
MaxTypeVersion == 3
TypeNames == {"MmioDeviceState", "TestState"}

\* VersionMap::new()
VmNew ==
    /\ codec = NoCodec
    /\ codec' = [pc |-> "version_map", vm |-> VersionMap_new, calls |-> <<>>]
    /\ op' = [name |-> "VersionMap_new"]
    /\ UNCHANGED <<dev, rings, saved, requeued, sig, snap, gm>>

\* new_version()
VmNewVersion ==
    /\ codec.pc = "version_map"
    /\ Len(codec.calls) < MaxVmCalls
    /\ codec' = [codec EXCEPT
                   !.vm = new_version(@),
                   !.calls = Append(@, [name |-> "new_version"])]
    /\ op' = [name |-> "new_version"]
    /\ UNCHANGED <<dev, rings, saved, requeued, sig, snap, gm>>

\* set_type_version(name, n)
VmSetTypeVersion ==
    /\ codec.pc = "version_map"
    /\ Len(codec.calls) < MaxVmCalls
    /\ \E type_name \in TypeNames, type_version \in 1..MaxTypeVersion :
          codec' = [codec EXCEPT
                      !.vm = set_type_version(@, type_name, type_version),
                      !.calls = Append(@, [name |-> "set_type_version",
                                           type |-> type_name,
                                           version |-> type_version])]
    /\ op' = [name |-> "set_type_version"]
    /\ UNCHANGED <<dev, rings, saved, requeued, sig, snap, gm>>

VersionMapNext ==
    \/ VmNew
    \/ VmNewVersion
    \/ VmSetTypeVersion

SpecVersionMap == InitSnap /\ [][VersionMapNext]_vars

----------------------------------------------------------------------------
(* Magic ids are built and validated, and streams are loaded.              *)

\* every u16
FormatVersions == 0..65535

\* a limb with one bit inverted
FlipBit(limb, bit) ==
    IF (limb \div 2^bit) % 2 = 1 THEN limb - 2^bit ELSE limb + 2^bit

\* magic ids: the one of this build with any one of its upper 48 bits
\* inverted, the ones of this build and of the aarch64 build
\* (0x0710_1984_AAAA_0000), and ids with other limbs, each with a few
\* format versions
MagicIds ==
    LET lows == {0, 1, 65535}
    IN  {[BASE_MAGIC_ID EXCEPT ![1] = low, ![limb] = FlipBit(@, bit)] :
            low \in lows, limb \in 2..4, bit \in 0..15}
        \cup {<<low, arch, 6532, 1808>> : low \in lows, arch \in {34404, 43690}}
        \cup {<<low, a, b, c>> : low \in lows, a \in {0, 34404, 65535},
                                 b \in {0, 6532}, c \in {1808, 65535}}

\* build_magic_id of a format version, and validate_magic_id of the result
MagicBuild ==
    /\ snap = NoSnapshot
    /\ \E format_version \in FormatVersions :
          snap' = [pc |-> "magic_built",
                   format_version |-> format_version,
                   magic_id |-> build_magic_id(format_version),
                   validated |-> validate_magic_id(build_magic_id(format_version))]
    /\ op' = [name |-> "build_magic_id"]
    /\ UNCHANGED <<dev, rings, saved, requeued, sig, codec, gm>>

\* validate_magic_id of a magic id
MagicValidate ==
    /\ snap = NoSnapshot
    /\ \E magic_id \in MagicIds :
          snap' = [pc |-> "magic_validated",
                   magic_id |-> magic_id,
                   validated |-> validate_magic_id(magic_id)]
    /\ op' = [name |-> "validate_magic_id"]
    /\ UNCHANGED <<dev, rings, saved, requeued, sig, codec, gm>>

\* the bytes save gives for a Snapshot with one section, "test"
SavedBytes(object) ==
    LET written == write_section(Snapshot_new(VersionMap_new, 1), kvm_pit_config_T,
                                 Str_test, object).snapshot
    IN  Snapshot_save(written, [i \in 1..1 |->
                                  CHOOSE section \in written.sections : TRUE]).bytes

\* the streams load is given: saved bytes as they are; with the arch id of
\* the aarch64 build in the magic id (0xAAAA); cut short in the magic id,
\* the header, the name or the data of the section; with a section_count
\* of 2 over one section
Streams ==
    UNION {
        {[fault |-> "none", bytes |-> SavedBytes(object)],
         [fault |-> "magic",
          bytes |-> [SavedBytes(object) EXCEPT ![3] = 170, ![4] = 170]],
         [fault |-> "count",
          bytes |-> [SavedBytes(object) EXCEPT ![11] = 2]]}
        \cup {[fault |-> "short", bytes |-> SubSeq(SavedBytes(object), 1, len)] :
                 len \in {0, 4, 8, 10, 14, 21, 30, Len(SavedBytes(object)) - 1}} :
        object \in PitConfigs}

\* Snapshot::load of a stream
LoadStream ==
    /\ snap = NoSnapshot
    /\ \E stream \in Streams :
          snap' = [pc |-> "stream_loaded",
                   fault |-> stream.fault,
                   bytes |-> stream.bytes,
                   result |-> Snapshot_load(stream.bytes, VersionMap_new)]
    /\ op' = [name |-> "load"]
    /\ UNCHANGED <<dev, rings, saved, requeued, sig, codec, gm>>

LoadNext ==
    \/ MagicBuild
    \/ MagicValidate
    \/ LoadStream

SpecLoad == InitSnap /\ [][LoadNext]_vars

----------------------------------------------------------------------------
(* Values of the versioned types of the tests of src/snapshot/src/lib.rs    *)
(* are serialized at an app version and deserialized at the same version.  *)

\* tests::test_struct_default_fn: struct Test
Test_T ==
    T_Struct("Test",
        <<Field("field1", T_u32),
          VersionedField("field2", T_u64, 2, 0, "field2_default", NoFn, NoFn),
          VersionedField("field3", T_String, 3, 0, "field3_default", NoFn, NoFn),
          VersionedField("field4", T_Vec(T_u64), 4, 0, "field4_default", NoFn, NoFn)>>)

\* the version map of that test: Test is at version 2, 3, 4 in the app
\* versions 2, 3, 4
Test_version_map ==
    set_type_version(new_version(
        set_type_version(new_version(
            set_type_version(new_version(VersionMap_new), "Test", 2)),
            "Test", 3)),
        "Test", 4)

\* the state of the test, and states with other fields
Test_values ==
    [field1 : {1, 7},
     field2 : {U64(2), U64(20)},
     field3 : {Str_test, <<>>},
     field4 : {<<U64(4), U64(3), U64(2), U64(1)>>, <<>>}]

\* tests::test_basic_add_remove_field: struct A and struct B
A_T ==
    T_Struct("A",
        <<VersionedField("x", T_u32, 1, 1, NoFn, NoFn, NoFn),
          Field("y", T_String),
          VersionedField("z", T_String, 2, 0, "default_A_z", NoFn, NoFn),
          VersionedField("q", T_u64, 3, 0, NoFn, "semantic_x", NoFn)>>)
B_T == T_Struct("B", <<Field("a", A_T), Field("b", T_u64)>>)

\* the version map of that test: A is at version 2, 3 in the app versions
\* 2, 3
A_version_map ==
    set_type_version(new_version(
        set_type_version(new_version(VersionMap_new), "A", 2)),
        "A", 3)

\* a version map in which A stays at version 1 in app version 2 and is at
\* version 2 in app version 3
A_late_version_map ==
    set_type_version(new_version(new_version(VersionMap_new)), "A", 2)

A_values ==
    [x : {0, 1234}, y : {Str_test}, z : {Str_basic, <<>>}, q : {U64(1234), U64(5)}]
B_values == [a : A_values, b : {U64(20)}]

\* tests: enum TestState, with Default One
TestState_T ==
    T_Enum("TestState",
        <<Variant("One", 1, 1, 0, NoFn),
          Variant("Two", 2, 2, 0, "test_state_default_one"),
          Variant("Three", 3, 3, 0, "test_state_default_two")>>,
        "One")

\* tests: struct kvm_lapic_state, struct ArrayElement, struct MmioDeviceState
\* (the attribute `default` of flag and arr is none the generator reads)
kvm_lapic_state_T == T_Struct("kvm_lapic_state", <<Field("regs", T_Array(T_i8, 32))>>)
ArrayElement_T == T_Struct("ArrayElement", <<Field("x", T_u8), Field("y", T_u8)>>)
MmioDeviceState_T ==
    T_Struct("MmioDeviceState",
        <<Field("addr", T_u64),
          Field("irq", T_u32),
          Field("device_activated", T_bool),
          Field("features_select", T_u32),
          Field("acked_features_select", T_u32),
          Field("queue_select", T_u32),
          Field("interrupt_status", T_usize),
          Field("driver_status", T_u32),
          Field("config_generation", T_u32),
          Field("queues", T_Vec(T_u8)),
          Field("lapics", T_Vec(kvm_lapic_state_T)),
          Field("test", TestState_T),
          VersionedField("flag", T_u8, 2, 0, NoFn, NoFn, NoFn),
          VersionedField("error", T_String, 3, 0, "default_error",
                         "serialize_error_semantic", "deserialize_error_semantic"),
          VersionedField("arr", T_Array(ArrayElement_T, 2), 4, 0, NoFn, NoFn, NoFn)>>)

\* tests::test_serialize_older_2_versions: the version map
Mmio_version_map ==
    set_type_version(new_version(
        set_type_version(set_type_version(new_version(
            set_type_version(set_type_version(new_version(VersionMap_new),
                "MmioDeviceState", 2), "TestState", 2)),
            "MmioDeviceState", 3), "TestState", 3)),
        "MmioDeviceState", 4)

\* the state of that test, and states with another irq, error, test, lapics
Mmio_values ==
    [addr : {U64(1234)},
     irq : {3, 1337},
     device_activated : {TRUE},
     features_select : {123456},
     acked_features_select : {653421},
     queue_select : {2},
     interrupt_status : {U64(88)},
     driver_status : {0},
     config_generation : {0},
     queues : {[i \in 1..64 |-> 0]},
     lapics : {<<>>, <<[regs |-> [i \in 1..32 |-> 0 - 5]]>>},
     test : {"One", "Two", "Three"},
     flag : {90},
     error : {Alabalaportocala, Str_test},
     arr : {[i \in 1..2 |-> [x |-> 1, y |-> 5]]}]

\* the values serialized: a type, an object of it and a version map
CodecCases ==
    {[ty |-> Test_T, object |-> v, version_map |-> Test_version_map] : v \in Test_values}
    \cup {[ty |-> A_T, object |-> v, version_map |-> A_version_map] : v \in A_values}
    \cup {[ty |-> A_T, object |-> v, version_map |-> A_late_version_map] : v \in A_values}
    \cup {[ty |-> B_T, object |-> v, version_map |-> A_version_map] : v \in B_values}
    \cup {[ty |-> MmioDeviceState_T, object |-> v, version_map |-> Mmio_version_map] :
             v \in Mmio_values}
    \cup {[ty |-> TestState_T, object |-> v, version_map |-> Mmio_version_map] :
             v \in {"One", "Two", "Three"}}

\* Versionize::serialize of a value at an app version of its version map.
\* Kept with the bytes: self after the call (serialize takes &self), and,
\* for a struct, the semantic functions the generated code called and the
\* copy_of_self they left, which is what the field serializers read.
CodecSerialize ==
    /\ codec = NoCodec
    /\ \E case \in CodecCases :
          \E app_version \in 1..get_latest_version(case.version_map) :
             LET version == get_type_version(case.version_map, app_version,
                                             case.ty.name)
                 is_struct == case.ty.kind = "struct"
             IN  codec' = [pc |-> "serialized",
                           ty |-> case.ty,
                           object |-> case.object,
                           version_map |-> case.version_map,
                           app_version |-> app_version,
                           self |-> case.object,
                           ser_calls |-> IF is_struct
                                         THEN semantic_ser_fns(case.ty.fields, version)
                                         ELSE <<>>,
                           copy_of_self |-> IF is_struct
                                            THEN semantic_serializer(case.ty.fields,
                                                     case.object, version)
                                            ELSE case.object,
                           write |-> serialize(case.ty, case.object,
                                               case.version_map, app_version),
                           de_calls |-> <<>>,
                           default_calls |-> <<>>,
                           built |-> ReadPanic,
                           read |-> ReadPanic]
    /\ op' = [name |-> "serialize"]
    /\ UNCHANGED <<dev, rings, saved, requeued, sig, snap, gm>>

\* Versionize::deserialize of the bytes written, at the same app version.
\* Kept with the result, for a struct: the object the field deserializers
\* built and the semantic functions the generated code called on it.
CodecDeserialize ==
    /\ codec.pc = "serialized"
    /\ codec.write.ok
    /\ LET version == get_type_version(codec.version_map, codec.app_version,
                                       codec.ty.name)
           is_struct == codec.ty.kind = "struct"
       IN  codec' = [codec EXCEPT
                       !.pc = "deserialized",
                       !.de_calls = IF is_struct
                                    THEN semantic_de_fns(codec.ty.fields, version)
                                    ELSE <<>>,
                       !.default_calls = IF is_struct
                                         THEN default_fn_calls(codec.ty.fields,
                                                  codec.app_version, version)
                                         ELSE <<>>,
                       !.built = IF is_struct
                                 THEN deserialize_fields(codec.ty.fields,
                                          codec.write.bytes, codec.version_map,
                                          codec.app_version, version,
                                          Default(codec.ty))
                                 ELSE ReadPanic,
                       !.read = deserialize(codec.ty, codec.write.bytes,
                                            codec.version_map, codec.app_version)]
    /\ op' = [name |-> "deserialize"]
    /\ UNCHANGED <<dev, rings, saved, requeued, sig, snap, gm>>

\* tests::test_union_version: union kvm_irq_level__bindgen_ty_1, repr(C),
\* of 32 bytes
kvm_irq_level_T ==
    T_Union("kvm_irq_level__bindgen_ty_1",
        <<Field("irq", T_u32),
          Field("status", T_i32),
          VersionedField("_bindgen_union_align", T_u32, 1, 1, NoFn, NoFn, NoFn),
          VersionedField("extended_status", T_i64, 2, 0, NoFn, NoFn, NoFn),
          VersionedField("_bindgen_union_align_2", T_Array(T_u64, 4), 2, 0,
                         NoFn, NoFn, NoFn)>>,
        32)

\* the version map of that test, and one with an app version 2 that has
\* the union at version 2
Union_version_maps ==
    {VersionMap_new,
     set_type_version(new_version(VersionMap_new), kvm_irq_level_T.name, 2)}

\* the state of that test, extended_status = 0x1234_5678_0765_4321 over
\* zeroed storage, and a state with no zero byte
Union_values ==
    {<<33, 67, 101, 7, 120, 86, 52, 18>> \o [i \in 1..24 |-> 0],
     [i \in 1..32 |-> i]}

\* the addresses a build can give the instances of size_of the generated
\* code names, one for every type of a field
MaxFnAddr == 3
Builds ==
    [{kvm_irq_level_T.fields[i].ty : i \in 1..Len(kvm_irq_level_T.fields)}
        -> 1..MaxFnAddr]

\* Versionize::serialize of a union at an app version, in some build
UnionSerialize ==
    /\ codec = NoCodec
    /\ \E self \in Union_values, version_map \in Union_version_maps,
          fn_addr \in Builds :
          \E app_version \in 1..get_latest_version(version_map) :
             codec' = [pc |-> "union_serialized",
                       ty |-> kvm_irq_level_T,
                       object |-> self,
                       version_map |-> version_map,
                       app_version |-> app_version,
                       fn_addr |-> fn_addr,
                       chosen |-> union_largest_field(kvm_irq_level_T,
                                     get_type_version(version_map, app_version,
                                                      kvm_irq_level_T.name),
                                     fn_addr),
                       write |-> union_serialize(kvm_irq_level_T, self, version_map,
                                                 app_version, fn_addr),
                       de_chosen |-> "none",
                       read |-> ReadPanic]
    /\ op' = [name |-> "serialize"]
    /\ UNCHANGED <<dev, rings, saved, requeued, sig, snap, gm>>

\* Versionize::deserialize of the bytes written, at the same app version in
\* the same build
UnionDeserialize ==
    /\ codec.pc = "union_serialized"
    /\ codec.write.ok
    /\ codec' = [codec EXCEPT
                   !.pc = "union_deserialized",
                   !.de_chosen = union_largest_field(codec.ty,
                                    get_type_version(codec.version_map,
                                        codec.app_version, codec.ty.name),
                                    codec.fn_addr),
                   !.read = union_deserialize(codec.ty, codec.write.bytes,
                                codec.version_map, codec.app_version,
                                codec.fn_addr)]
    /\ op' = [name |-> "deserialize"]
    /\ UNCHANGED <<dev, rings, saved, requeued, sig, snap, gm>>

\* the field arr: [ArrayElement; 2] of MmioDeviceState
ArrField == MmioDeviceState_T.fields[15]

\* the Vecs a stream can hold where the field arr is expected
MaxVecLen == 3
ArrayElements == {[x |-> 1, y |-> 5], [x |-> 7, y |-> 9]}
StreamVecs == UNION {[1..len -> ArrayElements] : len \in 0..MaxVecLen}

\* the generated deserializer of the field arr reads a stream that holds a
\* Vec<ArrayElement> of some length, at the latest app version
CodecDeserializeArray ==
    /\ codec = NoCodec
    /\ \E vec \in StreamVecs :
          LET app_version == get_latest_version(Mmio_version_map)
              stream == serialize(T_Vec(ArrField.ty.elem), vec, Mmio_version_map,
                                  app_version)
          IN  codec' = [pc |-> "array_deserialized",
                        ty |-> ArrField.ty,
                        object |-> vec,
                        version_map |-> Mmio_version_map,
                        app_version |-> app_version,
                        write |-> stream,
                        read |-> deserialize_field(ArrField, stream.bytes,
                                    Mmio_version_map, app_version,
                                    get_type_version(Mmio_version_map, app_version,
                                                     MmioDeviceState_T.name))]
    /\ op' = [name |-> "deserialize"]
    /\ UNCHANGED <<dev, rings, saved, requeued, sig, snap, gm>>

CodecNext ==
    \/ CodecSerialize
    \/ CodecDeserialize
    \/ UnionSerialize
    \/ UnionDeserialize
    \/ CodecDeserializeArray

SpecCodec == InitSnap /\ [][CodecNext]_vars

----------------------------------------------------------------------------
(* Guest memory (src/memory_model/src/guest_memory.rs, mmap.rs). A usize is *)
(* a number in 0..MaxUsize; addresses, sizes and offsets are counted in    *)
(* pages, so every offset is page-aligned.                                  *)

\* usize::MAX
MaxUsize == 3

\* usize::checked_add
checked_add(a, b) == IF a + b > MaxUsize THEN None ELSE Some(a + b)

\* range_overlap that takes the size of range1 for the first range
range_overlap_size1(range1, range2) ==
    LET first_start == IF range1[1] <= range2[1] THEN range1[1] ELSE range2[1]
        second_start == IF range1[1] >= range2[1] THEN range1[1] ELSE range2[1]
        first_end == checked_add(first_start, range1[2])
    IN  ~first_end.some \/ first_end.value > second_start

\* range_overlap of two (start, size) ranges
range_overlap(range1, range2) ==
    LET first_start == IF range1[1] <= range2[1] THEN range1[1] ELSE range2[1]
        second_start == IF range1[1] >= range2[1] THEN range1[1] ELSE range2[1]
        first_size == IF first_start = range1[1] THEN range1[2] ELSE range2[2]
        first_end == checked_add(first_start, first_size)
    IN  ~first_end.some \/ first_end.value > second_start

\* AnonMemoryDesc::overlap
AnonMemoryDesc_overlap(self, other) ==
    range_overlap(<<self.gpa, self.size>>, <<other.gpa, other.size>>)

\* AnonMemoryDesc::from(&(GuestAddress, usize))
AnonMemoryDesc_from(tuple) == [gpa |-> tuple[1], size |-> tuple[2]]

\* FileMemoryDesc::overlap
FileMemoryDesc_overlap(self, other) ==
    \/ range_overlap(<<self.gpa, self.size>>, <<other.gpa, other.size>>)
    \/ /\ self.fd = other.fd
       /\ range_overlap(<<self.offset, self.size>>, <<other.offset, other.size>>)

Ok(value) == [ok |-> TRUE, value |-> value]
Err(error) == [ok |-> FALSE, error |-> error]

\* MemoryMapping::new_anon: mmap fails for a size of 0 (EINVAL) and when
\* the system refuses the mapping
MemoryMapping_new_anon(size, refused) ==
    IF size = 0 \/ refused THEN Err("SystemCallFailed")
    ELSE Ok([size |-> size])

\* MemoryMapping::new_file_backed: mmap fails also when offset + size
\* overflows
MemoryMapping_new_file_backed(descriptor, refused) ==
    IF \/ descriptor.size = 0
       \/ ~checked_add(descriptor.offset, descriptor.size).some
       \/ refused
    THEN Err("SystemCallFailed")
    ELSE Ok([size |-> descriptor.size])

\* the loop that maps the ranges: the regions, or the error of the first
\* mapping that fails
map_regions(ranges, mappings) ==
    IF \E i \in 1..Len(ranges) : ~mappings[i].ok
    THEN Err("MemoryMappingFailed")
    ELSE Ok([regions |-> [i \in 1..Len(ranges) |->
                            [mapping |-> mappings[i].value,
                             guest_base |-> ranges[i].gpa]]])

\* GuestMemory::new_file_backed; the guard against overlapping regions
\* tests every range against every range after it
new_file_backed(ranges, refused) ==
    IF ranges = <<>> THEN Err("NoMemoryRegions")
    ELSE IF \E i, j \in 1..Len(ranges) :
               i < j /\ FileMemoryDesc_overlap(ranges[i], ranges[j])
    THEN Err("MemoryRegionOverlap")
    ELSE map_regions(ranges,
            [i \in 1..Len(ranges) |->
                MemoryMapping_new_file_backed(ranges[i], refused)])

\* GuestMemory::new_anon
new_anon(ranges, refused) ==
    IF ranges = <<>> THEN Err("NoMemoryRegions")
    ELSE IF \E i, j \in 1..Len(ranges) :
               i < j /\ AnonMemoryDesc_overlap(ranges[i], ranges[j])
    THEN Err("MemoryRegionOverlap")
    ELSE map_regions(ranges,
            [i \in 1..Len(ranges) |-> MemoryMapping_new_anon(ranges[i].size, refused)])

\* GuestMemory::new_anon_from_tuples
new_anon_from_tuples(ranges, refused) ==
    new_anon([i \in 1..Len(ranges) |-> AnonMemoryDesc_from(ranges[i])], refused)

----------------------------------------------------------------------------
(* The accessors of a MemoryMapping.  The bytes of a mapping are kept next  *)
(* to it as a sequence of size() bytes; an accessor gives its result and    *)
(* the bytes after the call.                                                *)

\* a panic of the calling thread
Panicked == [ok |-> FALSE, panic |-> TRUE]

Min(a, b) == IF a <= b THEN a ELSE b

\* the bytes of a fresh mapping
ZeroFilled(size) == [i \in 1..size |-> 0]

\* <&mut [u8] as Write>::write: the first min(len) bytes of src over dst
slice_write(dst, src) ==
    [i \in 1..Len(dst) |-> IF i <= Len(src) THEN src[i] ELSE dst[i]]

\* usize::overflowing_add
overflowing_add(a, b) ==
    [value |-> (a + b) % (MaxUsize + 1), fail |-> a + b > MaxUsize]

\* MemoryMapping::write_slice that reports the whole of buf as written
write_slice_unclipped(self, bytes, buf, offset) ==
    IF offset >= self.size
    THEN [result |-> Err("InvalidAddress"), bytes |-> bytes]
    ELSE LET slice == SubSeq(bytes, offset + 1, self.size)
         IN  [result |-> Ok(Len(buf)),
              bytes |-> SubSeq(bytes, 1, offset) \o slice_write(slice, buf)]

\* MemoryMapping::write_slice
write_slice(self, bytes, buf, offset) ==
    IF offset >= self.size
    THEN [result |-> Err("InvalidAddress"), bytes |-> bytes]
    ELSE LET slice == SubSeq(bytes, offset + 1, self.size)
         IN  [result |-> Ok(Min(Len(buf), Len(slice))),
              bytes |-> SubSeq(bytes, 1, offset) \o slice_write(slice, buf)]

\* MemoryMapping::read_slice: the result and buf after the call
read_slice(self, bytes, buf, offset) ==
    IF offset >= self.size
    THEN [result |-> Err("InvalidAddress"), buf |-> buf]
    ELSE LET slice == SubSeq(bytes, offset + 1, self.size)
         IN  [result |-> Ok(Min(Len(buf), Len(slice))),
              buf |-> slice_write(buf, slice)]

\* MemoryMapping::write_obj without the test of the overflow flag
write_obj_no_fail(self, bytes, ty, val, offset) ==
    LET sum == overflowing_add(offset, size_of(ty))
    IN  IF sum.value > self.size
        THEN [result |-> Err("InvalidAddress"), bytes |-> bytes]
        ELSE [result |-> Ok(<<>>),
              bytes |-> [i \in 1..Len(bytes) |->
                            IF i > offset /\ i <= offset + size_of(ty)
                            THEN LE(val, size_of(ty))[i - offset]
                            ELSE bytes[i]]]

\* MemoryMapping::write_obj::<T>
write_obj(self, bytes, ty, val, offset) ==
    LET sum == overflowing_add(offset, size_of(ty))
    IN  IF sum.fail \/ sum.value > self.size
        THEN [result |-> Err("InvalidAddress"), bytes |-> bytes]
        ELSE [result |-> Ok(<<>>),
              bytes |-> [i \in 1..Len(bytes) |->
                            IF i > offset /\ i <= offset + size_of(ty)
                            THEN LE(val, size_of(ty))[i - offset]
                            ELSE bytes[i]]]

\* MemoryMapping::read_obj::<T>
read_obj(self, bytes, ty, offset) ==
    LET sum == overflowing_add(offset, size_of(ty))
    IN  IF sum.fail \/ sum.value > self.size
        THEN Err("InvalidAddress")
        ELSE Ok(FromLE(SubSeq(bytes, offset + 1, offset + size_of(ty))))

----------------------------------------------------------------------------
(* The accessors of a GuestMemory.  contents[i] is the bytes of the mapping *)
(* of regions[i].  overflow_checks is the build setting that makes an       *)
(* integer overflow panic; without it the sum wraps.                        *)

\* GuestAddress::unchecked_add
unchecked_add(self, offset, overflow_checks) ==
    IF self + offset > MaxUsize /\ overflow_checks THEN Panicked
    ELSE Ok((self + offset) % (MaxUsize + 1))

\* GuestAddress::offset_from
offset_from(self, base) == self - base

\* region_end
region_end(region, overflow_checks) ==
    unchecked_add(region.guest_base, region.mapping.size, overflow_checks)

\* the loop over the regions from regions[i] on: the first region with
\* guest_base <= guest_addr < region_end(region), None when there is none;
\* region_end is evaluated only where guest_base <= guest_addr
RECURSIVE region_of(_, _, _, _)
region_of(regions, i, guest_addr, overflow_checks) ==
    IF i > Len(regions) THEN None
    ELSE IF guest_addr >= regions[i].guest_base
    THEN LET end == region_end(regions[i], overflow_checks)
         IN  IF ~end.ok THEN Panicked
             ELSE IF guest_addr < end.value THEN Some(i)
             ELSE region_of(regions, i + 1, guest_addr, overflow_checks)
    ELSE region_of(regions, i + 1, guest_addr, overflow_checks)

\* max_by_key(|region| region.guest_base): the last of the regions with
\* the greatest guest_base
max_by_key_guest_base(regions) ==
    CHOOSE i \in 1..Len(regions) :
        /\ \A j \in 1..Len(regions) : regions[j].guest_base <= regions[i].guest_base
        /\ \A j \in (i + 1)..Len(regions) : regions[j].guest_base < regions[i].guest_base

\* GuestMemory::end_addr
end_addr(self, overflow_checks) ==
    IF self.regions = <<>> THEN Ok(0)
    ELSE region_end(self.regions[max_by_key_guest_base(self.regions)], overflow_checks)

\* GuestMemory::address_in_range
address_in_range(self, addr, overflow_checks) ==
    LET found == region_of(self.regions, 1, addr, overflow_checks)
    IN  IF found = Panicked THEN Panicked ELSE Ok(found.some)

\* GuestMemory::do_in_region up to the call of cb: the region and the offset
\* cb is called with, or the error
do_in_region(self, guest_addr, size, overflow_checks) ==
    LET found == region_of(self.regions, 1, guest_addr, overflow_checks)
    IN  IF found = Panicked THEN Panicked
        ELSE IF found.some
        THEN LET region == self.regions[found.value]
                 offset == offset_from(guest_addr, region.guest_base)
             IN  IF size <= region.mapping.size - offset
                 THEN Ok([region |-> found.value, offset |-> offset])
                 ELSE Err(<<"InvalidGuestAddressRange", guest_addr, size>>)
        ELSE Err(<<"InvalidGuestAddressRange", guest_addr, size>>)

\* GuestMemory::do_in_region_partial up to the call of cb
do_in_region_partial(self, guest_addr, overflow_checks) ==
    LET found == region_of(self.regions, 1, guest_addr, overflow_checks)
    IN  IF found = Panicked THEN Panicked
        ELSE IF found.some
        THEN Ok([region |-> found.value,
                 offset |-> offset_from(guest_addr,
                                self.regions[found.value].guest_base)])
        ELSE Err(<<"InvalidGuestAddress", guest_addr>>)

\* the error of a mapping accessor as the closures of the accessors wrap it
MemoryAccess(guest_addr, result) ==
    IF result.ok THEN result ELSE Err(<<"MemoryAccess", guest_addr, result.error>>)

\* GuestMemory::write_slice_at_addr: the result and the contents after it
write_slice_at_addr(self, contents, buf, guest_addr, overflow_checks) ==
    LET at == do_in_region_partial(self, guest_addr, overflow_checks)
    IN  IF ~at.ok THEN [result |-> at, contents |-> contents]
        ELSE LET r == write_slice(self.regions[at.value.region].mapping,
                                  contents[at.value.region], buf, at.value.offset)
             IN  [result |-> MemoryAccess(guest_addr, r.result),
                  contents |-> [contents EXCEPT ![at.value.region] = r.bytes]]

\* GuestMemory::read_slice_at_addr: the result and buf after it
read_slice_at_addr(self, contents, buf, guest_addr, overflow_checks) ==
    LET at == do_in_region_partial(self, guest_addr, overflow_checks)
    IN  IF ~at.ok THEN [result |-> at, buf |-> buf]
        ELSE LET r == read_slice(self.regions[at.value.region].mapping,
                                 contents[at.value.region], buf, at.value.offset)
             IN  [result |-> MemoryAccess(guest_addr, r.result), buf |-> r.buf]

\* GuestMemory::read_obj_from_addr::<T>
read_obj_from_addr(self, contents, ty, guest_addr, overflow_checks) ==
    LET at == do_in_region(self, guest_addr, size_of(ty), overflow_checks)
    IN  IF ~at.ok THEN at
        ELSE MemoryAccess(guest_addr,
                read_obj(self.regions[at.value.region].mapping,
                         contents[at.value.region], ty, at.value.offset))

\* GuestMemory::write_obj_at_addr::<T>: the result and the contents after it
write_obj_at_addr(self, contents, ty, val, guest_addr, overflow_checks) ==
    LET at == do_in_region(self, guest_addr, size_of(ty), overflow_checks)
    IN  IF ~at.ok THEN [result |-> at, contents |-> contents]
        ELSE LET r == write_obj(self.regions[at.value.region].mapping,
                                contents[at.value.region], ty, val, at.value.offset)
             IN  [result |-> MemoryAccess(guest_addr, r.result),
                  contents |-> [contents EXCEPT ![at.value.region] = r.bytes]]

----------------------------------------------------------------------------
(* A GuestMemory is constructed from a list of ranges.                      *)

\* the lists of up to three elements of a set
Lists(S) ==
    {<<>>} \cup {<<a>> : a \in S} \cup {<<a, b>> : a, b \in S}
           \cup {<<a, b, c>> : a, b, c \in S}
\* the lists of up to two elements of a set
Pairs(S) == {<<>>} \cup {<<a>> : a \in S} \cup {<<a, b>> : a, b \in S}

Usizes == 0..MaxUsize
\* the file descriptors of two open files
Fds == {3, 4}
AnonMemoryDescs == [gpa : Usizes, size : Usizes]
FileMemoryDescs ==
    [gpa : Usizes, size : Usizes, fd : Fds, offset : Usizes, shared : {FALSE}]

NewAnon ==
    /\ gm = NoMemory
    /\ \E ranges \in Lists(AnonMemoryDescs), refused \in BOOLEAN :
          gm' = [pc |-> "built",
                 constructor |-> "new_anon",
                 ranges |-> ranges,
                 result |-> new_anon(ranges, refused)]
    /\ op' = [name |-> "new_anon"]
    /\ UNCHANGED <<dev, rings, saved, requeued, sig, snap, codec>>

NewAnonFromTuples ==
    /\ gm = NoMemory
    /\ \E tuples \in Pairs(Usizes \X Usizes), refused \in BOOLEAN :
          gm' = [pc |-> "built",
                 constructor |-> "new_anon_from_tuples",
                 ranges |-> [i \in 1..Len(tuples) |-> AnonMemoryDesc_from(tuples[i])],
                 result |-> new_anon_from_tuples(tuples, refused)]
    /\ op' = [name |-> "new_anon_from_tuples"]
    /\ UNCHANGED <<dev, rings, saved, requeued, sig, snap, codec>>

NewFileBacked ==
    /\ gm = NoMemory
    /\ \E ranges \in Pairs(FileMemoryDescs), refused \in BOOLEAN :
          gm' = [pc |-> "built",
                 constructor |-> "new_file_backed",
                 ranges |-> ranges,
                 result |-> new_file_backed(ranges, refused)]
    /\ op' = [name |-> "new_file_backed"]
    /\ UNCHANGED <<dev, rings, saved, requeued, sig, snap, codec>>

----------------------------------------------------------------------------
(* A GuestMemory that was built is accessed.  gm.memory is the GuestMemory, *)
(* gm.contents the bytes of its mappings, gm.call the last call.            *)

\* the slice written and the buffers read into
WriteBufs == {<<1, 2>>}
ReadBufs == {<<9, 9>>}
\* the objects written: a u8 and a u16 whose two bytes differ
Objs == {[ty |-> T_u8, val |-> 2], [ty |-> T_u16, val |-> 513]}

Accessible ==
    (gm.pc = "built" /\ gm.result.ok) \/ (gm.pc = "accessed" /\ "memory" \in DOMAIN gm)
Memory == IF gm.pc = "built" THEN gm.result.value ELSE gm.memory
Contents ==
    IF gm.pc = "built"
    THEN [i \in 1..Len(gm.result.value.regions) |->
            ZeroFilled(gm.result.value.regions[i].mapping.size)]
    ELSE gm.contents

Accessed(contents, call) ==
    /\ gm' = [pc |-> "accessed", memory |-> Memory, contents |-> contents,
              call |-> call]
    /\ op' = [name |-> call.name]
    /\ UNCHANGED <<dev, rings, saved, requeued, sig, snap, codec>>

EndAddr ==
    /\ Accessible
    /\ \E overflow_checks \in BOOLEAN :
          LET end == end_addr(Memory, overflow_checks)
          IN  Accessed(Contents,
                  [name |-> "end_addr",
                   result |-> end,
                   in_range |-> IF end.ok
                                THEN address_in_range(Memory, end.value, overflow_checks)
                                ELSE Panicked])

WriteObjAtAddr ==
    /\ Accessible
    /\ \E obj \in Objs, guest_addr \in Usizes, overflow_checks \in BOOLEAN :
          LET r == write_obj_at_addr(Memory, Contents, obj.ty, obj.val,
                                     guest_addr, overflow_checks)
          IN  Accessed(r.contents,
                  [name |-> "write_obj_at_addr",
                   ty |-> obj.ty,
                   val |-> obj.val,
                   guest_addr |-> guest_addr,
                   result |-> r.result])

ReadObjFromAddr ==
    /\ Accessible
    /\ \E obj \in Objs, guest_addr \in Usizes, overflow_checks \in BOOLEAN :
          Accessed(Contents,
              [name |-> "read_obj_from_addr",
               ty |-> obj.ty,
               guest_addr |-> guest_addr,
               result |-> read_obj_from_addr(Memory, Contents, obj.ty,
                                             guest_addr, overflow_checks)])

WriteSliceAtAddr ==
    /\ Accessible
    /\ \E buf \in WriteBufs, guest_addr \in Usizes, overflow_checks \in BOOLEAN :
          LET r == write_slice_at_addr(Memory, Contents, buf, guest_addr,
                                       overflow_checks)
          IN  Accessed(r.contents,
                  [name |-> "write_slice_at_addr",
                   buf |-> buf,
                   guest_addr |-> guest_addr,
                   result |-> r.result])

ReadSliceAtAddr ==
    /\ Accessible
    /\ \E buf \in ReadBufs, guest_addr \in Usizes, overflow_checks \in BOOLEAN :
          LET r == read_slice_at_addr(Memory, Contents, buf, guest_addr,
                                      overflow_checks)
          IN  Accessed(Contents,
                  [name |-> "read_slice_at_addr",
                   len |-> Len(buf),
                   buf |-> r.buf,
                   guest_addr |-> guest_addr,
                   result |-> r.result])

MemoryNext ==
    \/ NewAnon
    \/ NewAnonFromTuples
    \/ NewFileBacked
    \/ EndAddr

SpecMemory == InitSnap /\ [][MemoryNext]_vars

\* a GuestMemory of up to two anonymous regions is built and accessed
AccessNext ==
    \/ NewAnonFromTuples
    \/ WriteObjAtAddr
    \/ ReadObjFromAddr
    \/ WriteSliceAtAddr
    \/ ReadSliceAtAddr

SpecAccess == InitSnap /\ [][AccessNext]_vars

----------------------------------------------------------------------------
(* A MemoryMapping is made and accessed.  gm.mapping is the mapping,        *)
(* gm.bytes its bytes, gm.call the last call.                               *)

\* a buffer of every length up to usize::MAX + 1 to write from, with
\* neighbouring bytes that differ, and one to read into
SliceBufs == {[k \in 1..n |-> 1 + ((k + n) % 2)] : n \in 1..(MaxUsize + 1)}
EmptyBufs == {[k \in 1..n |-> 9] : n \in 1..(MaxUsize + 1)}

MappingNewAnon ==
    /\ gm = NoMemory
    /\ \E size \in Usizes, refused \in BOOLEAN :
          gm' = [pc |-> "mapped",
                 result |-> MemoryMapping_new_anon(size, refused)]
    /\ op' = [name |-> "MemoryMapping::new_anon"]
    /\ UNCHANGED <<dev, rings, saved, requeued, sig, snap, codec>>

Mapped ==
    (gm.pc = "mapped" /\ gm.result.ok) \/ (gm.pc = "accessed" /\ "mapping" \in DOMAIN gm)
Mapping == IF gm.pc = "mapped" THEN gm.result.value ELSE gm.mapping
Bytes == IF gm.pc = "mapped" THEN ZeroFilled(gm.result.value.size) ELSE gm.bytes

MappingAccessed(bytes, call) ==
    /\ gm' = [pc |-> "accessed", mapping |-> Mapping, bytes |-> bytes, call |-> call]
    /\ op' = [name |-> call.name]
    /\ UNCHANGED <<dev, rings, saved, requeued, sig, snap, codec>>

MappingWriteSlice ==
    /\ Mapped
    /\ \E buf \in SliceBufs, offset \in Usizes :
          LET r == write_slice(Mapping, Bytes, buf, offset)
          IN  MappingAccessed(r.bytes,
                  [name |-> "write_slice", buf |-> buf, offset |-> offset,
                   result |-> r.result])

MappingReadSlice ==
    /\ Mapped
    /\ \E buf \in EmptyBufs, offset \in Usizes :
          LET r == read_slice(Mapping, Bytes, buf, offset)
          IN  MappingAccessed(Bytes,
                  [name |-> "read_slice", len |-> Len(buf), buf |-> r.buf,
                   offset |-> offset, result |-> r.result])

MappingWriteObj ==
    /\ Mapped
    /\ \E obj \in Objs, offset \in Usizes :
          LET r == write_obj(Mapping, Bytes, obj.ty, obj.val, offset)
          IN  MappingAccessed(r.bytes,
                  [name |-> "write_obj", ty |-> obj.ty, val |-> obj.val,
                   offset |-> offset, result |-> r.result])

MappingReadObj ==
    /\ Mapped
    /\ \E obj \in Objs, offset \in Usizes :
          MappingAccessed(Bytes,
              [name |-> "read_obj", ty |-> obj.ty, offset |-> offset,
               result |-> read_obj(Mapping, Bytes, obj.ty, offset)])

MappingNext ==
    \/ MappingNewAnon
    \/ MappingWriteSlice
    \/ MappingReadSlice
    \/ MappingWriteObj
    \/ MappingReadObj

SpecMapping == InitSnap /\ [][MappingNext]_vars

----------------------------------------------------------------------------
(* Properties of the pumps (SpecPump). *)

PumpNames == {"process_rx", "process_tx"}
IsPump == op.name \in PumpNames
Indices(heads) == [i \in 1..Len(heads) |-> heads[i].index]
Ids(elems) == [i \in 1..Len(elems) |-> elems[i].id]

\* C1: when the backend fails for a head just popped, the pump un-pops it
\* and leaves the loop (it is the last head popped, the last handed to the
\* backend, and it is not in the used ring), and from then on, until a pump
\* on that queue pops it, the next pop on the queue yields that same head.
C1_UndoPopRequeues ==
    /\ \A q \in PumpQueues :
          requeued[q] # NoHead =>
             LET nxt == pop(dev.state.queues[q + 1], rings[q])
             IN  nxt.some /\ nxt.head = requeued[q]
    /\ (IsPump /\ op.undone # <<>>) =>
          /\ Len(op.undone) = 1
          /\ op.popped[Len(op.popped)] = op.undone[1]
          /\ op.calls[Len(op.calls)] = op.undone[1]
          /\ Len(op.added) = Len(op.popped) - 1
          /\ \A i \in 1..Len(op.added) : op.added[i].id # op.undone[1].index
          /\ requeued[op.q] = op.undone[1]

\* a process_rx that completed a head and then un-popped the next one,
\* while the driver's ring holds that head as the next to pop
C1_Witness ==
    /\ op.name = "process_rx"
    /\ op.undone # <<>>
    /\ Len(op.added) >= 1
    /\ requeued[RXQ_INDEX] = op.undone[1]

\* C2: the entries a pump adds to the used ring are, in order, the heads it
\* popped and did not un-pop, and it leaves the earlier entries alone.
C2_InOrder ==
    IsPump =>
       /\ op.kept
       /\ Ids(op.added) \o Indices(op.undone) = Indices(op.popped)

\* a pump that completed two heads the driver published in descending index order
C2_Witness ==
    /\ IsPump
    /\ Len(op.added) = 2
    /\ op.added[1].id > op.added[2].id

\* C3: a pump returns true iff it added at least one entry to the used
\* ring, entries of length 0 for heads that did not parse included; it
\* returns false when it popped nothing or un-popped the first head.
C3_ReturnsHaveUsed ==
    IsPump =>
       /\ op.ret <=> (Len(op.added) >= 1)
       /\ (op.popped = <<>>) => ~op.ret
       /\ (Len(op.popped) = 1 /\ op.undone = op.popped) => ~op.ret

\* a process_tx whose only completed head is one that did not parse, and
\* that returned true
C3_Witness ==
    /\ op.name = "process_tx"
    /\ op.ret
    /\ Len(op.added) = 1
    /\ ~op.popped[1].parse_ok
    /\ op.added[1].len = 0

----------------------------------------------------------------------------
\* C26: a head a pump popped that does not parse as a packet is added to
\* the used ring with length 0, the backend is not called for it, and the
\* loop goes on: the pump ends only with the available ring drained or with
\* a head that parsed and that the backend failed on.
C26_ParseErrorUsedZero ==
    IsPump =>
       /\ \A i \in 1..Len(op.popped) :
             ~op.popped[i].parse_ok =>
                /\ i <= Len(op.added)
                /\ op.added[i] = [id |-> op.popped[i].index, len |-> 0]
                /\ \A k \in 1..Len(op.calls) : op.calls[k] # op.popped[i]
       /\ op.undone = <<>> => Unpopped(op.q) = 0
       /\ op.undone # <<>> => op.undone[1].parse_ok /\ Unpopped(op.q) >= 1

\* a process_rx that popped a head that did not parse and went on to the
\* next one, which the backend filled
C26_Witness ==
    /\ op.name = "process_rx"
    /\ Len(op.popped) = 2
    /\ ~op.popped[1].parse_ok
    /\ op.added[1].len = 0
    /\ op.calls = <<op.popped[2]>>
    /\ Len(op.added) = 2
    /\ op.added[2].len > 0

----------------------------------------------------------------------------
\* the entries published on the used ring of queue q, and the heads the
\* device has popped from its available ring and not un-popped
UsedOf(q) == SubSeq(rings[q].used, 1, dev.state.queues[q + 1].next_used)
PoppedOf(q) == SubSeq(rings[q].avail, 1, dev.state.queues[q + 1].next_avail)

\* C29: across any sequence of process_rx and process_tx calls, each head
\* the driver made available on a queue is in that queue's used ring at most
\* once, and every head a pump popped is, when the pump returns, in the used
\* ring or restored by undo_pop (it is the head the next pop yields): the
\* used ring holds exactly the heads that are popped, in order.
C29_NoDropNoDouble ==
    /\ \A q \in PumpQueues :
          q + 1 <= Len(dev.state.queues) =>
             /\ Len(rings[q].used) = dev.state.queues[q + 1].next_used
             /\ Ids(UsedOf(q)) = Indices(PoppedOf(q))
             /\ \A i, k \in 1..Len(UsedOf(q)) :
                   UsedOf(q)[i].id = UsedOf(q)[k].id => i = k
    /\ IsPump =>
          /\ \A i \in 1..Len(op.popped) :
                \/ \E k \in 1..Len(op.added) : op.added[k].id = op.popped[i].index
                \/ \E k \in 1..Len(op.undone) : op.undone[k] = op.popped[i]
          /\ \A k \in 1..Len(op.undone) :
                /\ \A i \in 1..Len(UsedOf(op.q)) : UsedOf(op.q)[i].id # op.undone[k].index
                /\ pop(dev.state.queues[op.q + 1], rings[op.q]).some
                /\ pop(dev.state.queues[op.q + 1], rings[op.q]).head = op.undone[k]

\* the second process_tx that completed a head of the queue: it popped
\* only the head the earlier calls had left, the used ring holds both
\* heads once, and nothing is left to pop
C29_Witness ==
    /\ op.name = "process_tx"
    /\ Len(op.popped) = 1
    /\ Len(op.added) = 1
    /\ op.undone = <<>>
    /\ Len(rings[TXQ_INDEX].avail) = 2
    /\ Ids(rings[TXQ_INDEX].used) = Indices(rings[TXQ_INDEX].avail)
    /\ dev.state.queues[TXQ_INDEX + 1].next_avail = 2

----------------------------------------------------------------------------
(* Properties of the pumps turn by turn (SpecPumpSteps). *)

\* C27: every process_rx and process_tx that is called returns.  Each turn
\* of its loop pops a head and adds it to the used ring, or pops a head,
\* un-pops it after the backend failed and leaves the loop, or finds the
\* available ring drained and leaves the loop.
C27_PumpTerminates ==
    /\ [][(InLoop /\ op' # op) =>
             LET q == op.q
                 old == dev.state.queues[q + 1]
                 new == dev'.state.queues[q + 1]
                 head == rings[q].avail[old.next_avail + 1]
             IN  \/ /\ InLoop'
                    /\ old.next_avail < Len(rings[q].avail)
                    /\ new.next_avail = old.next_avail + 1
                    /\ new.next_used = old.next_used + 1
                    /\ rings'[q].used[new.next_used].id = head.index
                    /\ op'.log.popped = Append(op.log.popped, head)
                 \/ /\ Returned'
                    /\ old.next_avail < Len(rings[q].avail)
                    /\ op'.log.undone = <<head>>
                    /\ op'.log.calls = Append(op.log.calls, head)
                    /\ new = old
                    /\ rings' = rings
                 \/ /\ Returned'
                    /\ old.next_avail = Len(rings[q].avail)
                    /\ op'.log = op.log
                    /\ new = old
                    /\ rings' = rings]_vars
    /\ InLoop ~> Returned

\* a pump that returned after it completed one head and un-popped the next
C27_Witness ==
    /\ Returned
    /\ Len(op.log.popped) = 2
    /\ op.log.undone # <<>>
    /\ dev.state.queues[op.q + 1].next_used = 1
    /\ dev.state.queues[op.q + 1].next_avail = 1

----------------------------------------------------------------------------
(* Properties of activation (Spec, SpecFeatures). *)

\* C4: a device is Inactive when created, and an Activated device stays
\* Activated under every operation on it (restore builds another device).
C4_ActivatedForever ==
    /\ [](op.name = "none" => ~is_activated(dev))
    /\ [][(op'.name # "restore" /\ is_activated(dev)) => is_activated(dev')]_vars

\* an Activated device, written to its eventfd, on which a later operation ran
C4_Witness ==
    /\ is_activated(dev)
    /\ dev.activate_evt >= 1
    /\ op.name \in {"process_rx", "process_tx", "signal_used_queue", "save",
                    "ack_features_by_page", "read_config", "write_config"}

\* C5 as stated: an activate call on an Activated device neither writes the
\* activation eventfd again nor replaces the stored guest memory.
C5_Original ==
    [][(op'.name = "activate" /\ is_activated(dev)) =>
          /\ dev'.activate_evt = dev.activate_evt
          /\ dev'.device_status = dev.device_status]_vars

\* C5, what activate does: the device goes from Inactive to Activated at
\* most once, but activate has no guard on device_status: every call that
\* returns Ok writes the eventfd once more and stores the memory it was
\* given, also on an Activated device; a failing call and every other
\* operation leave the eventfd and the status alone.
C5_ActivateWritesPerCall ==
    /\ [](is_activated(dev) <=> dev.activate_evt >= 1)
    /\ [][/\ (op'.name = "activate" /\ op'.res = "Ok") =>
                /\ dev'.activate_evt = dev.activate_evt + 1
                /\ dev'.device_status = Activated(op'.mem)
          /\ ~(op'.name = "activate" /\ op'.res = "Ok") =>
                /\ dev'.activate_evt = dev.activate_evt
                /\ dev'.device_status = dev.device_status
          /\ is_activated(dev) => is_activated(dev')]_vars

\* the second successful activate call on one device
C5_Witness ==
    /\ op.name = "activate"
    /\ op.res = "Ok"
    /\ dev.activate_evt = 2
    /\ dev.device_status = Activated(op.mem)

\* C6: activate returns BadActivate when the device has not exactly 3
\* queues, and then changes nothing (no eventfd write, also when the write
\* would succeed); it returns BadActivate when the eventfd write fails, and
\* then leaves device_status as it was.
C6_BadActivate ==
    [][op'.name = "activate" =>
          /\ Len(dev.state.queues) # NUM_QUEUES =>
                (op'.res = "BadActivate" /\ dev' = dev)
          /\ ~op'.evtOk =>
                (op'.res = "BadActivate" /\ dev'.device_status = dev.device_status)]_vars

\* a rejected activate on a device with the wrong number of queues, with
\* an eventfd that would have taken the write
C6_Witness ==
    /\ op.name = "activate"
    /\ op.res = "BadActivate"
    /\ op.evtOk
    /\ Len(dev.state.queues) # NUM_QUEUES
    /\ dev.activate_evt = 0
    /\ ~is_activated(dev)

----------------------------------------------------------------------------
(* Properties of feature negotiation (SpecFeatures). *)

IsAck == op.name = "ack_features_by_page"
\* the bits of the 64-bit feature word a page value names
PageBits(page, value) ==
    CASE page = 0 -> value
      [] page = 1 -> {b + 32 : b \in value}
      [] OTHER -> {}

----------------------------------------------------------------------------
(* Properties of save and restore (Spec). *)

\* C9: the state save() returns has activated = (device_status is Activated)
\* and the device's cid, queues and features; the device restore builds
\* from it has the cid, queues, avail_features and acked_features of the
\* saved device, is Activated iff that one was, with the memory of the
\* constructor arguments, and is Inactive when the state says so.
C9_SaveRestore ==
    /\ saved # NoState =>
          /\ saved.activated = is_activated(dev)
          /\ saved.cid = dev.state.cid
          /\ saved.queues = dev.state.queues
          /\ saved.avail_features = dev.state.avail_features
          /\ saved.acked_features = dev.state.acked_features
    /\ op.name = "restore" =>
          /\ dev.state.cid = op.from.state.cid
          /\ dev.state.queues = op.from.state.queues
          /\ dev.state.avail_features = op.from.state.avail_features
          /\ dev.state.acked_features = op.from.state.acked_features
          /\ is_activated(dev) = is_activated(op.from)
          /\ is_activated(dev) => dev.device_status = Activated(op.mem)
    /\ \A mem \in Mems :
          ~is_activated(restore([mem |-> mem], [save(dev) EXCEPT !.activated = FALSE]))

\* an Activated device that popped a head and acked a feature, restored
\* with another memory than the one it was activated with
C9_Witness ==
    /\ op.name = "restore"
    /\ is_activated(dev)
    /\ dev.device_status.mem # op.from.device_status.mem
    /\ dev.state.acked_features # {}
    /\ dev.state.queues[RXQ_INDEX + 1].next_avail > 0

----------------------------------------------------------------------------
(* Properties of signal_used_queue (SpecSignal). *)

\* C7: in every interleaving, the thread that has read a notification from
\* the interrupt eventfd finds the VIRTIO_MMIO_INT_VRING bit set in
\* interrupt_status, when it loads it and for as long as it has not.
C7_NotifiedSeesBit ==
    /\ \A r \in sig.reads :
          r.notified => VIRTIO_MMIO_INT_VRING \subseteq r.status
    /\ sig.waiter = "notified" =>
          VIRTIO_MMIO_INT_VRING \subseteq dev.state.interrupt_status

\* the waiter loaded the status after a notification while another call
\* was between its two steps, and a load before any call saw no bit
C7_Witness ==
    /\ \E r \in sig.reads : r.notified
    /\ \E r \in sig.reads : ~r.notified /\ r.status = {}
    /\ \E t \in Signallers : sig.pc[t].at = 1

----------------------------------------------------------------------------
(* Properties of the snapshot container (SpecSnap). *)

\* the object last written under a name, if any
LastWritten(name) ==
    IF \E w \in snap.written : w.name = name
    THEN Some((CHOOSE w \in snap.written : w.name = name).object)
    ELSE None

----------------------------------------------------------------------------
(* Properties of the generated serializers (SpecCodec). *)

Decoded == codec.pc = "deserialized"
FieldsOf(ty) == {ty.fields[i] : i \in 1..Len(ty.fields)}
\* the version of the struct the version map gives at the app version
CodecVersion == get_type_version(codec.version_map, codec.app_version, codec.ty.name)
\* what a field that does not exist in the version is given
DeclaredDefault(field, version) ==
    IF field.default_fn # NoFn THEN call_default_fn(field.default_fn, version)
    ELSE Default(field.ty)

\* a type without versions: a primitive, or a Vec or array of such
RECURSIVE Plain(_)
Plain(ty) ==
    \/ ty.kind = "prim"
    \/ ty.kind \in {"vec", "array"} /\ Plain(ty.elem)

\* the object a round trip at an app version is to give: the semantic_ser_fn
\* of the fields that do not exist run on a copy; a field that exists keeps
\* the value of the copy (a struct or enum in it what its own round trip
\* gives: a variant that does not exist in the version of the enum becomes
\* what its default_fn returns); a field that does not exist gets its
\* declared default; the semantic_de_fn of the fields that do not exist run
\* on the result
RECURSIVE Restored(_, _, _, _)
Restored(ty, v, version_map, app_version) ==
    CASE ty.kind = "prim" -> v
      [] ty.kind = "enum" ->
            enum_serialized_variant(
                ty, v, get_type_version(version_map, app_version, ty.name))
      [] ty.kind \in {"vec", "array"} ->
            [i \in 1..Len(v) |-> Restored(ty.elem, v[i], version_map, app_version)]
      [] ty.kind = "struct" ->
            LET version == get_type_version(version_map, app_version, ty.name)
                copy == semantic_serializer(ty.fields, v, version)
                object == [n \in {f.name : f \in FieldsOf(ty)} |->
                             LET f == CHOOSE f \in FieldsOf(ty) : f.name = n
                             IN  IF FieldExists(f, version)
                                 THEN Restored(f.ty, copy[n], version_map, app_version)
                                 ELSE DeclaredDefault(f, version)]
            IN  semantic_deserializer(ty.fields, object, version)

\* C11 as stated: the struct deserialized from the bytes of s has the value
\* s has in every field that exists in the version, and the default_fn
\* result or the Default in every other field.
C11_Original ==
    (Decoded /\ codec.ty.kind = "struct") =>
        /\ codec.read.ok
        /\ \A f \in FieldsOf(codec.ty) :
              codec.read.value[f.name] =
                 IF FieldExists(f, CodecVersion) THEN codec.object[f.name]
                 ELSE DeclaredDefault(f, CodecVersion)

\* C11 amended: the round trip consumes the bytes and gives, in the fields
\* that exist in the version, the values of the working copy the
\* semantic_ser_fn of the missing fields have rewritten, a nested struct or
\* enum being restored by the same rule at its own version, and in the
\* missing fields the default_fn result or the Default, which the
\* semantic_de_fn of the missing fields may rewrite afterwards; for a struct
\* none of whose missing fields has a semantic function and whose fields
\* are primitives, Vecs or arrays of primitives this is the statement above.
C11_RoundTrip ==
    (Decoded /\ codec.ty.kind = "struct") =>
        /\ codec.read.ok
        /\ codec.read.rest = <<>>
        /\ codec.read.value =
              Restored(codec.ty, codec.object, codec.version_map, codec.app_version)
        /\ (\A f \in FieldsOf(codec.ty) :
               /\ Plain(f.ty)
               /\ FieldExists(f, CodecVersion)
                     \/ (f.semantic_ser_fn = NoFn /\ f.semantic_de_fn = NoFn))
              => \A f \in FieldsOf(codec.ty) :
                    codec.read.value[f.name] =
                       IF FieldExists(f, CodecVersion) THEN codec.object[f.name]
                       ELSE DeclaredDefault(f, CodecVersion)

\* struct Test written at version 2: field2 comes back, field3 and field4
\* come back as what their default_fn return
C11_Witness ==
    /\ Decoded
    /\ codec.ty.name = "Test"
    /\ CodecVersion = 2
    /\ codec.read.ok
    /\ codec.object.field3 = Str_test
    /\ codec.read.value.field2 = codec.object.field2
    /\ codec.read.value.field3 = call_default_fn("field3_default", 2)

----------------------------------------------------------------------------
\* a field whose [start_version, end_version] window leaves the version out
\* (end_version 0 is an open window)
Absent(field, version) ==
    \/ version < field.start_version
    \/ field.end_version > 0 /\ version > field.end_version

\* the elements of a sequence
Range(seq) == {seq[i] : i \in 1..Len(seq)}

\* C12: serializing a struct at version v calls the semantic_ser_fn of
\* exactly the fields absent at v, on a working copy, before the fields are
\* encoded: every surviving field is decoded as the copy had it after the
\* calls, and self is as it was; deserializing at v calls the semantic_de_fn
\* of exactly the absent fields, on the object that has every field decoded
\* or defaulted.
C12_SemanticOnCopy ==
    (codec.pc \in {"serialized", "deserialized"} /\ codec.ty.kind = "struct") =>
        LET fields == FieldsOf(codec.ty)
            rewritten == call_semantic_fns(codec.ser_calls, codec.object, CodecVersion)
        IN  /\ Range(codec.ser_calls) =
                  {f.semantic_ser_fn : f \in {g \in fields :
                      Absent(g, CodecVersion) /\ g.semantic_ser_fn # NoFn}}
            /\ codec.copy_of_self = rewritten
            /\ codec.self = codec.object
            /\ codec.write.ok
            /\ Decoded =>
                  /\ codec.built.ok
                  /\ \A f \in fields :
                        codec.built.value[f.name] =
                           IF Absent(f, CodecVersion)
                           THEN DeclaredDefault(f, CodecVersion)
                           ELSE Restored(f.ty, rewritten[f.name], codec.version_map,
                                         codec.app_version)
                  /\ Range(codec.de_calls) =
                        {f.semantic_de_fn : f \in {g \in fields :
                            Absent(g, CodecVersion) /\ g.semantic_de_fn # NoFn}}
                  /\ codec.read.ok
                  /\ codec.read.value =
                        call_semantic_fns(codec.de_calls, codec.built.value,
                                          CodecVersion)

\* MmioDeviceState written at a version without `error`: the bytes carry the
\* irq serialize_error_semantic put in the copy while self keeps its irq,
\* and deserialize_error_semantic puts the error back over the default
C12_Witness ==
    /\ Decoded
    /\ codec.ty.name = "MmioDeviceState"
    /\ CodecVersion \in 1..2
    /\ codec.object.irq = 3
    /\ codec.object.error = Alabalaportocala
    /\ codec.ser_calls = <<"serialize_error_semantic">>
    /\ codec.self.irq = 3
    /\ codec.built.ok
    /\ codec.built.value.irq = 1337
    /\ codec.built.value.error = call_default_fn("default_error", CodecVersion)
    /\ codec.de_calls = <<"deserialize_error_semantic">>
    /\ codec.read.value.error = Alabalaportocala

----------------------------------------------------------------------------
\* the fields of a union whose window holds the version
InWindow(ty, version) == {f \in FieldsOf(ty) : ~Absent(f, version)}

\* C13 as stated: a union at version v is written as exactly one field, the
\* field of largest size among the fields whose window holds v, and
\* deserialize at v reads that field back; a field outside the window is
\* never the one.
C13_Original ==
    codec.pc \in {"union_serialized", "union_deserialized"} =>
        /\ codec.chosen \in {f.name : f \in InWindow(codec.ty, CodecVersion)}
        /\ \A f \in InWindow(codec.ty, CodecVersion) :
              size_of(f.ty) <= size_of(union_field(codec.ty, codec.chosen).ty)
        /\ codec.write.ok
        /\ codec.write.bytes =
              serialize(union_field(codec.ty, codec.chosen).ty,
                        read_union_field(union_field(codec.ty, codec.chosen).ty,
                                         codec.object),
                        codec.version_map, codec.app_version).bytes
        /\ codec.pc = "union_deserialized" =>
              /\ codec.de_chosen = codec.chosen
              /\ codec.read.ok

\* C13, what the generated code gives: serialize and deserialize of one
\* build select the same field, a field that started at or before v or has
\* an end_version at or after v, and the union that comes back has the
\* bytes of that field and zeroes after them.
C13_SelectedFieldRoundTrip ==
    codec.pc = "union_deserialized" =>
        LET field == union_field(codec.ty, codec.chosen)
        IN  /\ codec.de_chosen = codec.chosen
            /\ \/ CodecVersion >= field.start_version
               \/ field.end_version > 0 /\ CodecVersion <= field.end_version
            /\ codec.read.ok
            /\ codec.read.rest = <<>>
            /\ codec.read.value =
                  SubSeq(codec.object, 1, size_of(field.ty))
                     \o [i \in 1..(codec.ty.size - size_of(field.ty)) |-> 0]

\* the union at version 2 in a build where size_of::<u32> has the highest
\* address: irq is written, and the other 28 bytes come back as zeroes
C13_Witness ==
    /\ codec.pc = "union_deserialized"
    /\ CodecVersion = 2
    /\ codec.chosen = "irq"
    /\ codec.object = [i \in 1..32 |-> i]
    /\ Len(codec.write.bytes) = 4
    /\ codec.read.ok
    /\ codec.read.value = <<1, 2, 3, 4>> \o [i \in 1..28 |-> 0]

----------------------------------------------------------------------------
\* the variant of an enum by its name, and the variant the bytes written
\* for an enum name
VariantOf(ty, ident) == ty.fields[variant_index(ty, ident) + 1]
WrittenVariant == codec.ty.fields[FromLE(codec.write.bytes) + 1]

\* C14 as stated: when the variant of the value does not exist at the
\* version of the enum, what is written is the variant its default_fn
\* returns and that variant exists at the version; a translation to a
\* variant that does not exist at the version makes the encoding fail.
C14_Original ==
    (/\ codec.pc \in {"serialized", "deserialized"}
     /\ codec.ty.kind = "enum"
     /\ Absent(VariantOf(codec.ty, codec.object), CodecVersion)) =>
        LET translated ==
               call_variant_default_fn(VariantOf(codec.ty, codec.object).default_fn,
                                       codec.object, CodecVersion)
        IN  IF Absent(VariantOf(codec.ty, translated), CodecVersion)
            THEN ~codec.write.ok
            ELSE codec.write.ok /\ WrittenVariant.ident = translated

\* C14, what the generated code gives: the encoding never fails; the
\* variant written is the one the default_fn returns when the variant of
\* the value does not exist at the version, whether or not the returned
\* variant exists at it, and the variant of the value otherwise; it is the
\* variant deserialize gives back.
C14_WritesDefaultFnResult ==
    (codec.pc \in {"serialized", "deserialized"} /\ codec.ty.kind = "enum") =>
        /\ codec.write.ok
        /\ Len(codec.write.bytes) = 4
        /\ WrittenVariant.ident =
              IF Absent(VariantOf(codec.ty, codec.object), CodecVersion)
              THEN call_variant_default_fn(
                      VariantOf(codec.ty, codec.object).default_fn,
                      codec.object, CodecVersion)
              ELSE codec.object
        /\ Decoded => codec.read.ok /\ codec.read.value = WrittenVariant.ident

\* TestState::Two written at version 1 of TestState, where Two does not
\* exist: test_state_default_one returns Two, and Two is written and read
C14_Witness ==
    /\ Decoded
    /\ codec.ty.kind = "enum"
    /\ codec.object = "Two"
    /\ CodecVersion = 1
    /\ Absent(WrittenVariant, 1)
    /\ codec.read.value = "Two"

----------------------------------------------------------------------------
\* C15 as stated: an array [T; N] is serialized as a u64 length and its N
\* elements, and a stream that holds a sequence of another length, shorter
\* or longer, is not deserialized into an array.
C15_Original ==
    codec.pc = "array_deserialized" =>
        IF Len(codec.object) = codec.ty.len
        THEN /\ codec.read.ok
             /\ serialize(codec.ty, codec.read.value, codec.version_map,
                          codec.app_version).bytes
                   = U64Bytes(U64(codec.ty.len))
                        \o SubSeq(codec.write.bytes, 9, Len(codec.write.bytes))
        ELSE ~codec.read.ok

\* C15, what the generated code gives: a sequence shorter than N is not
\* deserialized; one of length N gives the array that serializes to the
\* stream, a u64 length and N elements; one longer than N gives the array
\* of its first N elements, the whole sequence being consumed.
C15_ArrayDecoding ==
    codec.pc = "array_deserialized" =>
        IF Len(codec.object) < codec.ty.len THEN ~codec.read.ok
        ELSE /\ codec.read.ok
             /\ codec.read.rest = <<>>
             /\ codec.read.value = SubSeq(codec.object, 1, codec.ty.len)
             /\ Len(codec.object) = codec.ty.len =>
                   serialize(codec.ty, codec.read.value, codec.version_map,
                             codec.app_version).bytes
                      = U64Bytes(U64(codec.ty.len))
                           \o SubSeq(codec.write.bytes, 9, Len(codec.write.bytes))

\* a stream with three elements where arr: [ArrayElement; 2] is expected:
\* the first two are the array, the third is dropped
C15_Witness ==
    /\ codec.pc = "array_deserialized"
    /\ Len(codec.object) = 3
    /\ codec.object[3] # codec.object[2]
    /\ codec.read.ok
    /\ codec.read.value = <<codec.object[1], codec.object[2]>>

----------------------------------------------------------------------------
(* Properties of the magic id and of load (SpecLoad). *)

\* C16: validate_magic_id(build_magic_id(f)) = Some(f) for every u16 f, and
\* validate_magic_id(m) = None for every m that differs from BASE_MAGIC_ID
\* in one of its upper 48 bits.
C16_MagicRoundTrip ==
    /\ snap.pc = "magic_built" => snap.validated = Some(snap.format_version)
    /\ (/\ snap.pc = "magic_validated"
        /\ \E limb \in 2..4 : snap.magic_id[limb] # BASE_MAGIC_ID[limb]) =>
           snap.validated = None

\* the highest format version comes back from the magic id built for it
C16_Witness ==
    /\ snap.pc = "magic_built"
    /\ snap.format_version = 65535
    /\ snap.magic_id = <<65535, 34404, 6532, 1808>>
    /\ snap.validated = Some(65535)

\* C17 as stated: a stream whose arch id is not the one of this build, or
\* whose header or sections cannot be decoded, makes load return its error
\* result: no Snapshot, and no panic.
C17_Original ==
    (snap.pc = "stream_loaded" /\ snap.fault # "none") =>
        ~snap.result.ok /\ ~snap.result.panic

\* C17, what the code gives: such a stream gives no Snapshot and ends load
\* in a panic; a saved stream gives Ok with the section that was saved.
C17_LoadPanics ==
    snap.pc = "stream_loaded" =>
        IF snap.fault = "none"
        THEN /\ snap.result.ok
             /\ {section.name : section \in snap.result.snapshot.sections}
                   = {Str_test}
        ELSE snap.result = LoadPanic

\* a stream with the arch id of another build: load panics
C17_Witness ==
    /\ snap.pc = "stream_loaded"
    /\ snap.fault = "magic"
    /\ validate_magic_id(
          deserialize_prim(T_u64, snap.bytes).value) = None
    /\ snap.result.panic

----------------------------------------------------------------------------
(* Properties of the VersionMap (SpecVersionMap). *)

\* the latest app version when the i-th call was made: 1 and the
\* new_version calls before it
LatestAt(calls, i) ==
    1 + Cardinality({j \in 1..(i - 1) : calls[j].name = "new_version"})

\* the set_type_version calls for a type made while the latest app version
\* was at most the app version
SetCalls(calls, app_version, type_name) ==
    {i \in 1..Len(calls) :
        /\ calls[i].name = "set_type_version"
        /\ calls[i].type = type_name
        /\ LatestAt(calls, i) <= app_version}

\* C18: after any calls of new_version and set_type_version on
\* VersionMap::new(), get_latest_version() is 1 and the number of
\* new_version calls, and get_type_version(a, name), for every app version a
\* up to the latest, is the n of the last set_type_version(name, n) made
\* while the latest app version was at most a, or 1 when there was none.
C18_VersionMapHistory ==
    codec.pc = "version_map" =>
        /\ get_latest_version(codec.vm) = LatestAt(codec.calls, Len(codec.calls) + 1)
        /\ \A app_version \in 1..get_latest_version(codec.vm), type_name \in TypeNames :
              LET made == SetCalls(codec.calls, app_version, type_name)
              IN  get_type_version(codec.vm, app_version, type_name) =
                     IF made = {} THEN 1
                     ELSE codec.calls[CHOOSE i \in made : \A j \in made : j <= i].version

\* a type version set in app version 1 and again in app version 3: app
\* version 2 has inherited the first, app version 1 keeps it, app version 3
\* has the second
C18_Witness ==
    /\ codec.pc = "version_map"
    /\ Len(codec.calls) = 4
    /\ codec.calls[1].name = "set_type_version"
    /\ codec.calls[2].name = "new_version"
    /\ codec.calls[3].name = "new_version"
    /\ codec.calls[4].name = "set_type_version"
    /\ codec.calls[1].type = codec.calls[4].type
    /\ get_latest_version(codec.vm) = 3
    /\ get_type_version(codec.vm, 1, codec.calls[1].type) = 2
    /\ get_type_version(codec.vm, 2, codec.calls[1].type) = 2
    /\ get_type_version(codec.vm, 3, codec.calls[1].type) = 3

----------------------------------------------------------------------------
(* Properties of the guest memory constructors (SpecMemory). *)

\* the half-open intervals [a, a + s) and [b, b + t) have a point in common
Intersect(a, s, b, t) == \E x \in 0..(2 * MaxUsize) : a <= x /\ x < a + s /\ b <= x /\ x < b + t

\* two ranges of the input overlap in guest-physical space
GpaOverlap(ranges) ==
    \E i, j \in 1..Len(ranges) :
        /\ i # j
        /\ Intersect(ranges[i].gpa, ranges[i].size, ranges[j].gpa, ranges[j].size)

\* C19: a GuestMemory that new_anon, new_anon_from_tuples or
\* new_file_backed returns has regions whose intervals
\* [guest_base, guest_base + size) are pairwise disjoint; when two ranges
\* of the input overlap in guest-physical space, in any order and also
\* where base + size overflows, the result is MemoryRegionOverlap.
C19_RegionsDisjoint ==
    gm.pc = "built" =>
        /\ gm.result.ok =>
              LET regions == gm.result.value.regions
              IN  \A i, j \in 1..Len(regions) :
                     i # j => ~Intersect(regions[i].guest_base, regions[i].mapping.size,
                                         regions[j].guest_base, regions[j].mapping.size)
        /\ GpaOverlap(gm.ranges) => gm.result = Err("MemoryRegionOverlap")

\* the second range starts below the first and runs over its start, the
\* first runs past usize::MAX: MemoryRegionOverlap
C19_Witness ==
    /\ gm.pc = "built"
    /\ gm.constructor = "new_anon"
    /\ Len(gm.ranges) = 2
    /\ gm.ranges[2].gpa < gm.ranges[1].gpa
    /\ gm.ranges[1].gpa + gm.ranges[1].size > MaxUsize
    /\ gm.ranges[2].size < gm.ranges[1].size
    /\ GpaOverlap(gm.ranges)
    /\ gm.result = Err("MemoryRegionOverlap")

----------------------------------------------------------------------------
\* two descriptors of the input have the same fd and overlapping file ranges
\* [offset, offset + size)
FileOverlap(ranges) ==
    \E i, j \in 1..Len(ranges) :
        /\ i # j
        /\ ranges[i].fd = ranges[j].fd
        /\ Intersect(ranges[i].offset, ranges[i].size,
                     ranges[j].offset, ranges[j].size)

\* C20 as stated: new_file_backed gives MemoryRegionOverlap whenever two
\* descriptors with the same fd have overlapping file ranges, also when
\* their guest-physical ranges are disjoint; descriptors are otherwise
\* rejected as overlapping only for a guest-physical overlap.
C20_Original ==
    (gm.pc = "built" /\ gm.constructor = "new_file_backed") =>
        /\ FileOverlap(gm.ranges) => gm.result = Err("MemoryRegionOverlap")
        /\ gm.result = Err("MemoryRegionOverlap") =>
              FileOverlap(gm.ranges) \/ GpaOverlap(gm.ranges)

\* C20, what the code gives: MemoryRegionOverlap whenever two descriptors
\* with the same fd have overlapping file ranges; when no descriptor has a
\* size of 0, MemoryRegionOverlap only for such a pair or for a
\* guest-physical overlap.
C20_FileOverlapRejected ==
    (gm.pc = "built" /\ gm.constructor = "new_file_backed") =>
        /\ FileOverlap(gm.ranges) => gm.result = Err("MemoryRegionOverlap")
        /\ (/\ \A i \in 1..Len(gm.ranges) : gm.ranges[i].size > 0
            /\ gm.result = Err("MemoryRegionOverlap")) =>
              FileOverlap(gm.ranges) \/ GpaOverlap(gm.ranges)

\* two descriptors on one fd, disjoint in guest-physical space, whose file
\* ranges overlap: MemoryRegionOverlap
C20_Witness ==
    /\ gm.pc = "built"
    /\ gm.constructor = "new_file_backed"
    /\ Len(gm.ranges) = 2
    /\ gm.ranges[1].fd = gm.ranges[2].fd
    /\ ~GpaOverlap(gm.ranges)
    /\ FileOverlap(gm.ranges)
    /\ gm.result = Err("MemoryRegionOverlap")

----------------------------------------------------------------------------
(* Properties of the accessors of a GuestMemory (SpecMemory, SpecAccess). *)

\* the last call on the GuestMemory was name
Called(name) == gm.pc = "accessed" /\ gm.call.name = name

\* the end guest_base + size of a region, as a number
End(region) == region.guest_base + region.mapping.size

\* the maximum over the regions of guest_base + size
MaxEnd(regions) ==
    CHOOSE e \in {End(regions[i]) : i \in 1..Len(regions)} :
        \A i \in 1..Len(regions) : End(regions[i]) <= e

\* C21 as stated: for every constructed GuestMemory, in whatever order its
\* regions were given, end_addr() is the maximum over the regions of
\* guest_base + size and address_in_range(end_addr()) is false.
C21_Original ==
    Called("end_addr") =>
        /\ gm.call.result = Ok(MaxEnd(gm.memory.regions))
        /\ gm.call.in_range = Ok(FALSE)

\* C21, what end_addr does: it is the end of the region with the greatest
\* guest_base.  Where no region ends above usize::MAX that is the maximum
\* of guest_base + size, and address_in_range of it is false; the
\* constructors let the region with the greatest guest_base end above
\* usize::MAX, and then end_addr panics or gives the sum wrapped around.
C21_EndAddr ==
    Called("end_addr") =>
        LET regions == gm.memory.regions
        IN  IF MaxEnd(regions) <= MaxUsize
            THEN /\ gm.call.result = Ok(MaxEnd(regions))
                 /\ gm.call.in_range = Ok(FALSE)
            ELSE /\ gm.call.result
                       \in {Panicked, Ok(MaxEnd(regions) % (MaxUsize + 1))}
                 /\ \A i \in 1..Len(regions) :
                       End(regions[i]) > MaxUsize =>
                          \A j \in 1..Len(regions) :
                             regions[j].guest_base <= regions[i].guest_base

\* three regions given with the highest first: end_addr is its end
C21_Witness ==
    /\ Called("end_addr")
    /\ Len(gm.memory.regions) = 3
    /\ gm.memory.regions[1].guest_base > gm.memory.regions[3].guest_base
    /\ gm.memory.regions[3].guest_base > gm.memory.regions[2].guest_base
    /\ gm.call.result = Ok(End(gm.memory.regions[1]))
    /\ gm.call.in_range = Ok(FALSE)

----------------------------------------------------------------------------
\* guest_addr is in region i: guest_base <= guest_addr < guest_base + size
InRegion(regions, i, guest_addr) ==
    regions[i].guest_base <= guest_addr /\ guest_addr < End(regions[i])

\* the range [guest_addr, guest_addr + size) lies inside one region
InOneRegion(regions, guest_addr, size) ==
    \E i \in 1..Len(regions) :
        InRegion(regions, i, guest_addr) /\ guest_addr + size <= End(regions[i])

\* guest_addr is in no region, or in a region the object runs past the end of
NoRoom(regions, guest_addr, size) ==
    \A i \in 1..Len(regions) :
        InRegion(regions, i, guest_addr) => guest_addr + size > End(regions[i])

\* a region that ends above usize::MAX
Overflows(region) == End(region) > MaxUsize

ObjCall == Called("write_obj_at_addr") \/ Called("read_obj_from_addr")

\* C22 as stated: read_obj_from_addr and write_obj_at_addr succeed only if
\* [gpa, gpa + sizeof(T)) lies inside one region; when gpa is in no region
\* or the object runs past the end of its region, also with a contiguous
\* region after it, they return InvalidGuestAddressRange(gpa, sizeof(T)) and
\* no byte of guest memory is changed.
C22_Original ==
    [][ObjCall' =>
          LET call == gm'.call
              regions == gm'.memory.regions
              size == size_of(call.ty)
          IN  /\ call.result.ok => InOneRegion(regions, call.guest_addr, size)
              /\ NoRoom(regions, call.guest_addr, size) =>
                    /\ call.result
                          = Err(<<"InvalidGuestAddressRange", call.guest_addr, size>>)
                    /\ gm'.contents = Contents]_vars

\* C22, what the accessors do: the same, except at and above the guest_base
\* of a region that ends above usize::MAX, where a build with overflow
\* checks panics in region_end and one without them does not find the
\* region; a call that does not succeed changes no byte, and an object
\* inside a region that does not end above usize::MAX is accessed.
C22_ObjInOneRegion ==
    [][ObjCall' =>
          LET call == gm'.call
              regions == gm'.memory.regions
              size == size_of(call.ty)
              error == Err(<<"InvalidGuestAddressRange", call.guest_addr, size>>)
              overflowed ==
                  \E i \in 1..Len(regions) :
                      /\ Overflows(regions[i])
                      /\ regions[i].guest_base <= call.guest_addr
          IN  /\ call.result.ok => InOneRegion(regions, call.guest_addr, size)
              /\ ~call.result.ok => gm'.contents = Contents
              /\ NoRoom(regions, call.guest_addr, size) =>
                    \/ call.result = error
                    \/ overflowed /\ call.result = Panicked
              /\ (InOneRegion(regions, call.guest_addr, size) /\ ~overflowed) =>
                    call.result.ok
              /\ overflowed => call.result \in {error, Panicked}]_vars

\* a u16 written at the last byte of a region that another region follows
\* without a gap: InvalidGuestAddressRange, and the bytes written before
\* are still there
C22_Witness ==
    /\ Called("write_obj_at_addr")
    /\ Len(gm.memory.regions) = 2
    /\ gm.memory.regions[2].guest_base = End(gm.memory.regions[1])
    /\ gm.call.guest_addr = End(gm.memory.regions[1]) - 1
    /\ gm.call.ty = T_u16
    /\ gm.call.result = Err(<<"InvalidGuestAddressRange", gm.call.guest_addr, 2>>)
    /\ gm.contents[1][Len(gm.contents[1])] = 2
    /\ gm.contents[2][1] = 1

----------------------------------------------------------------------------
SliceCall == Called("write_slice_at_addr") \/ Called("read_slice_at_addr")

\* bytes with the first n bytes of src put at offset (counted from 0)
Overlay(bytes, offset, src, n) ==
    [k \in 1..Len(bytes) |->
        IF k > offset /\ k <= offset + n THEN src[k - offset] ELSE bytes[k]]

\* what a slice call at guest_addr inside region i must have done: count is
\* min(buf.len, r.end - gpa); a write leaves count bytes of buf at gpa and
\* every other byte of every region as it was; a read leaves those count
\* bytes in front of buf and changes no byte of guest memory
SliceDone(before, after, call, regions, i) ==
    LET offset == call.guest_addr - regions[i].guest_base
        len == IF call.name = "write_slice_at_addr" THEN Len(call.buf) ELSE call.len
        count == Min(len, End(regions[i]) - call.guest_addr)
    IN  /\ call.result = Ok(count)
        /\ IF call.name = "write_slice_at_addr"
           THEN after = [before EXCEPT ![i] = Overlay(before[i], offset, call.buf, count)]
           ELSE /\ after = before
                /\ call.buf = Overlay([k \in 1..len |-> 9], 0,
                                  SubSeq(before[i], offset + 1, offset + count), count)

\* a read follows a write at the same guest_addr: it returns the bytes
\* written, as many as both calls transferred
ReadBack(write, read) ==
    (/\ write.name = "write_slice_at_addr"
     /\ read.name = "read_slice_at_addr"
     /\ write.guest_addr = read.guest_addr
     /\ write.result.ok) =>
        /\ read.result.ok
        /\ \A k \in 1..Min(write.result.value, read.len) : read.buf[k] = write.buf[k]
        /\ read.len = Len(write.buf) => read.result = write.result

\* C23 as stated: write_slice_at_addr and read_slice_at_addr at a gpa inside
\* region r transfer exactly min(buf.len, r.end - gpa) bytes, all inside r,
\* and return that count, never touching a following region; a later read
\* at the same gpa returns the bytes written; with gpa in no region they
\* fail with InvalidGuestAddress(gpa).
C23_Original ==
    [][SliceCall' =>
          LET call == gm'.call
              regions == gm'.memory.regions
          IN  /\ \A i \in 1..Len(regions) :
                    InRegion(regions, i, call.guest_addr) =>
                       SliceDone(Contents, gm'.contents, call, regions, i)
              /\ (\A i \in 1..Len(regions) : ~InRegion(regions, i, call.guest_addr)) =>
                    /\ call.result = Err(<<"InvalidGuestAddress", call.guest_addr>>)
                    /\ gm'.contents = Contents
              /\ Called("write_slice_at_addr") => ReadBack(gm.call, call)]_vars

\* C23, what the accessors do: the same for every region that does not end
\* above usize::MAX; at a gpa inside a region that does, a build with
\* overflow checks panics in region_end and one without them does not find
\* the region and fails with InvalidGuestAddress(gpa), no byte transferred.
C23_SliceInOneRegion ==
    [][SliceCall' =>
          LET call == gm'.call
              regions == gm'.memory.regions
              error == Err(<<"InvalidGuestAddress", call.guest_addr>>)
          IN  /\ \A i \in 1..Len(regions) :
                    InRegion(regions, i, call.guest_addr) =>
                       IF Overflows(regions[i])
                       THEN /\ call.result \in {error, Panicked}
                            /\ gm'.contents = Contents
                       ELSE SliceDone(Contents, gm'.contents, call, regions, i)
              /\ (\A i \in 1..Len(regions) : ~InRegion(regions, i, call.guest_addr)) =>
                    /\ call.result = error
                    /\ gm'.contents = Contents
              /\ (Called("write_slice_at_addr") /\ gm.call.result.ok) =>
                    ReadBack(gm.call, call)]_vars

\* a read of two bytes at the last byte of a region that another region
\* follows without a gap, after a write of two bytes there: one byte comes
\* back, the one written, and the following region was not written
C23_Witness ==
    /\ Called("read_slice_at_addr")
    /\ Len(gm.memory.regions) = 2
    /\ gm.memory.regions[2].guest_base = End(gm.memory.regions[1])
    /\ gm.call.guest_addr = End(gm.memory.regions[1]) - 1
    /\ gm.call.result = Ok(1)
    /\ gm.call.buf = <<1, 9>>
    /\ gm.contents[2] = ZeroFilled(gm.memory.regions[2].mapping.size)

----------------------------------------------------------------------------
(* Properties of the accessors of a MemoryMapping (SpecMapping). *)

\* C24: MemoryMapping::write_slice(buf, off) returns Err(InvalidAddress) iff
\* off >= size; otherwise it returns min(buf.len, size - off) and changes
\* only the bytes [off, off + count) of the mapping, which stays size bytes
\* long; a read_slice at off that follows returns the same count and the
\* bytes written, and every read_slice returns the bytes last written at
\* the offsets it reads.
C24_SliceClipped ==
    [][/\ Called("write_slice")' =>
            LET call == gm'.call
                size == gm'.mapping.size
                count == Min(Len(call.buf), size - call.offset)
            IN  /\ call.result = Err("InvalidAddress") <=> call.offset >= size
                /\ call.offset >= size => gm'.bytes = Bytes
                /\ call.offset < size =>
                      /\ call.result = Ok(count)
                      /\ gm'.bytes = Overlay(Bytes, call.offset, call.buf, count)
                /\ Len(gm'.bytes) = size
       /\ Called("read_slice")' =>
            LET call == gm'.call
                size == gm'.mapping.size
                count == Min(call.len, size - call.offset)
            IN  /\ gm'.bytes = Bytes
                /\ call.result = Err("InvalidAddress") <=> call.offset >= size
                /\ call.offset < size =>
                      /\ call.result = Ok(count)
                      /\ call.buf = Overlay([k \in 1..call.len |-> 9], 0,
                                        SubSeq(Bytes, call.offset + 1,
                                               call.offset + count), count)
                /\ (/\ Called("write_slice")
                    /\ gm.call.offset = call.offset
                    /\ gm.call.result.ok) =>
                      /\ call.len = Len(gm.call.buf) => call.result = gm.call.result
                      /\ \A k \in 1..Min(gm.call.result.value, call.len) :
                            call.buf[k] = gm.call.buf[k]]_vars

\* a write of three bytes at the last byte of a mapping, then a read of
\* three bytes there: one byte was written, one comes back
C24_Witness ==
    /\ Called("read_slice")
    /\ gm.mapping.size >= 2
    /\ gm.call.offset = gm.mapping.size - 1
    /\ gm.call.len = 3
    /\ gm.call.result = Ok(1)
    /\ gm.call.buf = <<1, 9, 9>>
    /\ gm.bytes[gm.mapping.size - 1] = 0

----------------------------------------------------------------------------
\* C25: MemoryMapping::write_obj::<T>(val, off) and read_obj::<T>(off)
\* succeed iff off + sizeof(T) does not overflow usize and is <= size;
\* otherwise, off = usize::MAX included, they return InvalidAddress and the
\* bytes of the mapping are unchanged; a read_obj that follows a successful
\* write_obj of the same type at the same offset returns the value written.
C25_ObjBounds ==
    [][/\ Called("write_obj")' =>
            LET call == gm'.call
                fits == call.offset + size_of(call.ty) <= gm'.mapping.size
            IN  /\ call.result.ok <=> fits
                /\ ~fits => call.result = Err("InvalidAddress") /\ gm'.bytes = Bytes
                /\ fits => gm'.bytes = Overlay(Bytes, call.offset,
                                           LE(call.val, size_of(call.ty)),
                                           size_of(call.ty))
       /\ Called("read_obj")' =>
            LET call == gm'.call
                fits == call.offset + size_of(call.ty) <= gm'.mapping.size
            IN  /\ gm'.bytes = Bytes
                /\ call.result.ok <=> fits
                /\ ~fits => call.result = Err("InvalidAddress")
                /\ (/\ Called("write_obj")
                    /\ gm.call.result.ok
                    /\ gm.call.offset = call.offset
                    /\ gm.call.ty = call.ty) =>
                      call.result = Ok(gm.call.val)]_vars

\* a u16 written at the last two bytes of a mapping and read back
C25_Witness ==
    /\ Called("read_obj")
    /\ gm.call.ty = T_u16
    /\ gm.call.offset = gm.mapping.size - 2
    /\ gm.call.result = Ok(513)
    /\ gm.bytes[gm.mapping.size] = 2

----------------------------------------------------------------------------
(* Properties of the generated deserializers: default_fn (SpecCodec). *)

\* the fields of the decoded struct that do not exist in its version and
\* have a default_fn, in declaration order
DefaultedFields ==
    SelectSeq(codec.ty.fields,
              LAMBDA field : Absent(field, CodecVersion) /\ field.default_fn # NoFn)

----------------------------------------------------------------------------
(* Properties of activation across save and restore (Spec). *)

\* C30 as stated: in every reachable state, a restored device included,
\* device_status = Activated implies that 1 has been written to the
\* activation eventfd of that device.
C30_Original == is_activated(dev) => dev.activate_evt >= 1

\* C30 for what the code does: an Activated device either had its
\* activation eventfd written by activate, or was built by restore from a
\* state with activated = true; restore gives the device a fresh eventfd
\* that it does not write, and makes it Activated exactly when the state
\* says so.
C30_ActivatedByActivateOrRestore ==
    /\ [](is_activated(dev) => (dev.activate_evt >= 1 \/ dev.state.activated))
    /\ [][op'.name = "restore" =>
             /\ dev'.activate_evt = 0
             /\ is_activated(dev') <=> saved.activated]_vars

\* an Activated device right after restore: nothing was written to its
\* activation eventfd
C30_Witness ==
    /\ op.name = "restore"
    /\ is_activated(op.from)
    /\ op.from.activate_evt >= 1
    /\ is_activated(dev)
    /\ dev.activate_evt = 0

====
